---------------------------- MODULE Spec2Model ----------------------------
(***************************************************************************)
(* Medical Certificate Issuance System.                                    *)
(*                                                                         *)
(* Two parts of the repository are modelled:                               *)
(*   - the rule pipeline of expert_system.py (Blackboard, NurseExpert,     *)
(*     DoctorExpert, ClinicStaffExpert, ControlShell.process_case,         *)
(*     analyze_case), as operators over Python-like values;                *)
(*   - the discrete-event clinic simulation of simulation.py               *)
(*     (ClinicSimulation.process_student, complete_student,                *)
(*     update_statistics, notify_event, run_simulation and its             *)
(*     student_generator), as a state machine driven by an event queue     *)
(*     ordered by (time, priority, insertion).                             *)
(*                                                                         *)
(* Virtual time is counted in ticks of half a minute, so that the fixed    *)
(* 1.5 minute visualization delay is the integer 3.                        *)
(***************************************************************************)
EXTENDS Integers, Sequences, FiniteSets, TLC

VARIABLES
    \* ---- expert system (expert_system.py) ----
    case_data,      \* the mapping handed to analyze_case
    blackboard,     \* ControlShell.blackboard: facts, intermediate_decisions, case_history
    evaluated,      \* the experts whose evaluate() ran, in order
    result,         \* what analyze_case returned (NoResult before the call)
    earlier,        \* what the call before the last one returned for the same
                    \* mapping (NoResult until analyze_case was called twice)
    \* ---- simulation (simulation.py) ----
    config,         \* ClinicConfig of the run
    now,            \* env.now, in ticks
    queue,          \* the environment's event queue, sorted by (t, prio, insertion)
    users,          \* per pool: the requests holding a unit (Resource.users)
    put_queue,      \* per pool: the requests waiting (Resource.put_queue)
    students,       \* per student id: the Student object and its process state
    stats,          \* ClinicSimulation.stats
    run,            \* "called", "running", "returned" (final_stats built),
                    \* "error" (except branch), or "idle" when no simulation runs
    final_stats,    \* the record run_simulation returned (NoResult while running)
    \* ---- history of the run ----
    requested,      \* per pool: the students in the order they called request()
    granted,        \* per pool: the students in the order they were given a unit
    notified,       \* the calls the event callback received, in order: the event
                    \* type, the student it is about, and for a statistics
                    \* snapshot the two counters the properties read
    replay,         \* the stream of the random generator: which run of the two
                    \* runs on one seed this is (pass), the values the stream gave
                    \* the first run (gaps, draws) and gives the second one again,
                    \* and the record the first run returned (first)
    \* ---- GUI controller (main.py) ----
    gui             \* MedicalCertificateSystem: is_simulating, the text of the
                    \* entry fields, the simulation threads alive, and the last
                    \* message box or event the handler showed

expertVars == <<case_data, blackboard, evaluated, result, earlier>>
simVars == <<config, now, queue, users, put_queue, students, stats, run, final_stats,
             requested, granted, notified, replay>>
vars == <<case_data, blackboard, evaluated, result, earlier,
          config, now, queue, users, put_queue, students, stats, run, final_stats,
          requested, granted, notified, replay, gui>>

(***************************************************************************)
(* Bounds of the model.                                                    *)
(***************************************************************************)
MaxSymptoms == 3        \* longest symptoms list given to analyze_case
MaxStudents == 3        \* arrivals generated in one simulated run

(***************************************************************************)
(* Python values.  A value is a record tagged with its type, so that None, *)
(* booleans, strings, lists and datetimes can sit in one mapping.          *)
(***************************************************************************)
None == [t |-> "none"]
Bool(b) == [t |-> "bool", v |-> b]
Str(s) == [t |-> "str", v |-> s]
List(l) == [t |-> "list", v |-> l]
DateTime(y, mo, d, h, mi) ==
    [t |-> "datetime", v |-> [year |-> y, month |-> mo, day |-> d, hour |-> h, minute |-> mi]]
IntValue(n) == [t |-> "int", v |-> n]

\* a list of the strings l with an int put in at position i
ListWithInt(l, i) == [t |-> "listwithint", v |-> l, int_at |-> i]

\* bool(x) of Python: what `not x`, `and`, `all(...)` test.
Truthy(x) ==
    CASE x.t = "none" -> FALSE
      [] x.t = "bool" -> x.v
      [] x.t = "str" -> Len(x.v) > 0
      [] x.t = "list" -> Len(x.v) > 0
      [] OTHER -> TRUE

\* d.get(k): the value, or None when the key is absent.
Get(d, k) == IF k \in DOMAIN d THEN d[k] ELSE None

\* dict.update: keys of `other` overwrite, the rest is kept.
Update(d, other) ==
    [k \in (DOMAIN d) \cup (DOMAIN other) |-> IF k \in DOMAIN other THEN other[k] ELSE d[k]]

(***************************************************************************)
(* Strings: str.lower(), the `in` substring test, and zero-padded numbers. *)
(***************************************************************************)
UpperChars == "ABCDEFGHIJKLMNOPQRSTUVWXYZ"
LowerChars == "abcdefghijklmnopqrstuvwxyz"
Digits == "0123456789"

\* the lower-case letter of every upper-case letter
UpperToLower ==
    [c \in {SubSeq(UpperChars, i, i) : i \in 1..Len(UpperChars)} |->
        LET i == CHOOSE j \in 1..Len(UpperChars) : SubSeq(UpperChars, j, j) = c
        IN  SubSeq(LowerChars, i, i)]

LowerChar(c) == IF c \in DOMAIN UpperToLower THEN UpperToLower[c] ELSE c

RECURSIVE Lower(_)
Lower(s) ==
    IF Len(s) = 0 THEN "" ELSE LowerChar(SubSeq(s, 1, 1)) \o Lower(SubSeq(s, 2, Len(s)))

\* c in s, for strings
Contains(s, c) ==
    \E i \in 1..(Len(s) - Len(c) + 1) : SubSeq(s, i, i + Len(c) - 1) = c

Digit(n) == SubSeq(Digits, n + 1, n + 1)
Pad2(n) == Digit((n \div 10) % 10) \o Digit(n % 10)
Pad4(n) == Pad2(n \div 100) \o Pad2(n % 100)

\* timestamp.strftime('%Y%m%d%H%M')
Strftime(dt) ==
    Pad4(dt.year) \o Pad2(dt.month) \o Pad2(dt.day) \o Pad2(dt.hour) \o Pad2(dt.minute)


(***************************************************************************)
(* expert_system.py                                                        *)
(***************************************************************************)
\* Blackboard.__init__: the facts every new blackboard starts with.
DefaultFacts ==
    [student_id |-> None,
     has_excuse_letter |-> Bool(FALSE),
     symptoms |-> List(<<>>),
     illness_type |-> None,
     timestamp |-> None,
     valid_id |-> Bool(FALSE),
     parent_guardian_verified |-> Bool(FALSE)]

NewBlackboard ==
    [facts |-> DefaultFacts,
     intermediate_decisions |->
        [nurse_assessment |-> None, doctor_review |-> None, final_decision |-> None],
     case_history |-> <<>>]

\* ExpertSource.confidence_threshold = 0.7, kept as the fraction 7/10
ThresholdNum == 7
ThresholdDen == 10

\* NurseExpert.simple_cases
simple_cases ==
    {"cold", "flu", "cough", "headache", "fever", "stomach_ache", "sore throat"}

\* DoctorExpert.complex_conditions
complex_conditions ==
    {"recurring fever", "severe injury", "chronic pain",
     "mental health", "surgery recovery", "infectious disease"}

\* ClinicStaffExpert.required_fields
required_fields == {"student_id", "symptoms", "timestamp", "has_excuse_letter", "valid_id"}

\* _determine_complexity without .lower()
DetermineComplexityCaseSensitive(symptoms) ==
    IF \E i \in 1..Len(symptoms) : symptoms[i] \in simple_cases
    THEN "simple"
    ELSE "complex"

\* NurseExpert._determine_complexity
DetermineComplexity(symptoms) ==
    IF \E i \in 1..Len(symptoms) : Lower(symptoms[i]) \in simple_cases
    THEN "simple"
    ELSE "complex"

\* NurseExpert.can_handle; no caller in the repository
NurseCanHandle(facts) == Truthy(facts["has_excuse_letter"]) /\ Truthy(facts["student_id"])

\* NurseExpert.evaluate with `and` for `or` in rule 1
NurseEvaluateBothMissing(facts) ==
    IF ~Truthy(facts["has_excuse_letter"]) /\ ~Truthy(facts["valid_id"])
    THEN [decision |-> "reject",
          reason |-> "No valid excuse letter or ID",
          complexity |-> "simple"]
    ELSE IF facts["symptoms"].t # "list"
    THEN [decision |-> "reject",
          reason |-> "System error: symptoms",
          complexity |-> "unknown"]
    ELSE IF DetermineComplexity(facts["symptoms"].v) = "simple"
    THEN [decision |-> "approve",
          reason |-> "Simple case with valid documentation",
          complexity |-> "simple"]
    ELSE [decision |-> "refer",
          reason |-> "Complex case needs doctor review",
          complexity |-> "complex"]

\* NurseExpert.evaluate that takes a case declared complex for a complex one
NurseEvaluateByIllnessType(facts) ==
    IF ~Truthy(facts["has_excuse_letter"]) \/ ~Truthy(facts["valid_id"])
    THEN [decision |-> "reject",
          reason |-> "No valid excuse letter or ID",
          complexity |-> "simple"]
    ELSE IF facts["illness_type"] # Str("complex")
            /\ DetermineComplexity(facts["symptoms"].v) = "simple"
    THEN [decision |-> "approve",
          reason |-> "Simple case with valid documentation",
          complexity |-> "simple"]
    ELSE [decision |-> "refer",
          reason |-> "Complex case needs doctor review",
          complexity |-> "complex"]

\* NurseExpert.evaluate
NurseEvaluate(facts) ==
    IF ~Truthy(facts["has_excuse_letter"]) \/ ~Truthy(facts["valid_id"])
    THEN [decision |-> "reject",
          reason |-> "No valid excuse letter or ID",
          complexity |-> "simple"]
    ELSE IF DetermineComplexity(facts["symptoms"].v) = "simple"
    THEN [decision |-> "approve",
          reason |-> "Simple case with valid documentation",
          complexity |-> "simple"]
    ELSE [decision |-> "refer",
          reason |-> "Complex case needs doctor review",
          complexity |-> "complex"]

\* DoctorExpert.can_handle; no caller in the repository
DoctorCanHandle(facts) ==
    Truthy(facts["has_excuse_letter"]) /\ facts["illness_type"] = Str("complex")

\* _validate_documentation that does not look at the symptoms
ValidateDocumentationIgnoresSymptoms(facts) ==
    /\ Truthy(facts["has_excuse_letter"])
    /\ Truthy(facts["valid_id"])

\* DoctorExpert._validate_documentation
ValidateDocumentation(facts) ==
    /\ Truthy(facts["has_excuse_letter"])
    /\ Truthy(facts["valid_id"])
    /\ Len(facts["symptoms"].v) > 0

\* DoctorExpert._assess_severity: severe_symptoms / max(1, len(symptoms)), as a fraction
\* the severity test without .lower()
IsSevereCaseSensitive(s) == \E c \in complex_conditions : Contains(s, c)

IsSevere(s) == \E c \in complex_conditions : Contains(Lower(s), c)

AssessSeverity(symptoms) ==
    [num |-> Cardinality({i \in 1..Len(symptoms) : IsSevere(symptoms[i])}),
     den |-> IF Len(symptoms) > 1 THEN Len(symptoms) ELSE 1]

\* severity >= self.confidence_threshold
MeetsThreshold(severity) == severity.num * ThresholdDen >= ThresholdNum * severity.den

\* DoctorExpert.evaluate
DoctorEvaluate(facts) ==
    IF ~ValidateDocumentation(facts)
    THEN [decision |-> "reject",
          reason |-> "Insufficient documentation for complex case"]
    ELSE LET severity == AssessSeverity(facts["symptoms"].v)
         IN  IF MeetsThreshold(severity)
             THEN [decision |-> "approve",
                   reason |-> "Complex case validated and approved",
                   severity |-> severity]
             ELSE [decision |-> "reject",
                   reason |-> "Condition does not warrant certificate"]

\* _validate_fields that asks for the keys only, not for their values
ValidateFieldsPresentOnly(facts) == \A field \in required_fields : field \in DOMAIN facts

\* ClinicStaffExpert._validate_fields
ValidateFields(facts) == \A field \in required_fields : Truthy(Get(facts, field))

\* ClinicStaffExpert._generate_record_id; strftime exists on a datetime only
RecordIdRaises(facts) == facts["timestamp"].t # "datetime"

\* what an f-string puts in for a value
Format(x) ==
    CASE x.t = "none" -> "None"
      [] x.t = "bool" -> IF x.v THEN "True" ELSE "False"
      [] OTHER -> x.v

GenerateRecordId(facts) ==
    "MC-" \o Format(facts["student_id"]) \o "-" \o Strftime(facts["timestamp"].v)

\* ClinicStaffExpert.evaluate; `wall` is what datetime.now() returns
StaffEvaluate(facts, wall) ==
    IF ~ValidateFields(facts)
    THEN [decision |-> "reject",
          reason |-> "Missing required information for record"]
    ELSE [decision |-> "record",
          reason |-> "Case recorded in system",
          record_id |-> GenerateRecordId(facts),
          record_time |-> Strftime(wall.v)]

\* the except branch that lets the exception through
SystemErrorPropagates(msg) == [raised |-> msg]

\* the except branch of process_case and of analyze_case
SystemError(msg) ==
    [decision |-> "reject", reason |-> "System error: " \o msg, complexity |-> "unknown"]

\* the `valid_id` default of process_case (lines 164-166)
DefaultValidId(facts) ==
    IF "valid_id" \notin DOMAIN facts
    THEN Update(facts, [valid_id |-> Bool(TRUE)])
    ELSE facts

\* self.blackboard.facts.update(case_data) and the default that follows it
LoadFacts(bb, cd) == DefaultValidId(Update(bb.facts, cd))

\* facts.update(case_data) raises TypeError when case_data is no mapping
UpdateRaises(cd) == "t" \in DOMAIN cd

\* `for symptom in symptoms` with symptom.lower() inside any(...): None is
\* not iterable, and an int has no lower(); any(...) stops at the first
\* symptom of the nurse's vocabulary, so an int after it is not reached
ComplexityRaises(symptoms) ==
    CASE symptoms.t = "none" -> TRUE
      [] symptoms.t = "listwithint" ->
            ~\E i \in 1..(symptoms.int_at - 1) : Lower(symptoms.v[i]) \in simple_cases
      [] OTHER -> FALSE

\* str(e) of the exception _determine_complexity raises
ComplexityFault(symptoms) ==
    IF symptoms.t = "none"
    THEN "'NoneType' object is not iterable"
    ELSE "'int' object has no attribute 'lower'"

\* NurseExpert.evaluate raises: rule 1 does not reject and rule 2 fails
NurseRaises(facts) ==
    /\ Truthy(facts["has_excuse_letter"])
    /\ Truthy(facts["valid_id"])
    /\ ComplexityRaises(facts["symptoms"])

\* FinalDecision that hands the staff's decision on as it is
FinalDecisionOfStaff(nurse, staff) == staff

\* FinalDecision that hands on the time the staff recorded the case
FinalDecisionWithRecordTime(nurse, staff) ==
    IF staff.decision = "record"
    THEN [decision |-> "approve",
          record_id |-> staff.record_id,
          record_time |-> staff.record_time,
          approved_by |-> IF nurse.complexity = "simple" THEN "nurse" ELSE "doctor"]
    ELSE staff

\* process_case, lines 186-193: the final decision after the staff stage
FinalDecision(nurse, staff) ==
    IF staff.decision = "record"
    THEN [decision |-> "approve",
          record_id |-> staff.record_id,
          approved_by |-> IF nurse.complexity = "simple" THEN "nurse" ELSE "doctor"]
    ELSE staff

\* an evaluate in which the doctor marks the guardian as verified
StageFactsDoctorVerifies(stage, facts) ==
    IF stage = "doctor"
    THEN [facts EXCEPT !["parent_guardian_verified"] = Bool(TRUE)]
    ELSE facts

\* the facts mapping as the evaluate of an expert leaves it: the three
\* evaluate methods read the mapping they are handed and write no key of it
StageFacts(stage, facts) == facts

\* ControlShell.process_case: the returned decision, the blackboard it leaves
\* and the experts it evaluated.
ProcessCase(bb, cd, wall) ==
    IF UpdateRaises(cd)
    THEN [ret |-> SystemError("'int' object is not iterable"),
          bb |-> bb,
          evaluated |-> <<>>]
    ELSE IF NurseRaises(LoadFacts(bb, cd))
    THEN [ret |-> SystemError(ComplexityFault(LoadFacts(bb, cd)["symptoms"])),
          bb |-> [bb EXCEPT !.facts = LoadFacts(bb, cd)],
          evaluated |-> <<"nurse">>]
    ELSE
    LET loaded == LoadFacts(bb, cd)
        nurse == NurseEvaluate(loaded)
        factsN == StageFacts("nurse", loaded)
        bbN == [bb EXCEPT !.facts = factsN,
                          !.intermediate_decisions.nurse_assessment = nurse]
        needDoctor ==
            nurse.decision = "refer" \/ nurse.complexity = "complex"
        doctor == DoctorEvaluate(factsN)
        facts == IF needDoctor THEN StageFacts("doctor", factsN) ELSE factsN
        bbD == IF needDoctor
               THEN [bbN EXCEPT !.facts = facts,
                                !.intermediate_decisions.doctor_review = doctor]
               ELSE bbN
        seenD == IF needDoctor THEN <<"nurse", "doctor">> ELSE <<"nurse">>
        staff == StaffEvaluate(facts, wall)
        factsS == StageFacts("staff", facts)
        final == FinalDecision(nurse, staff)
        bbF == [bbD EXCEPT !.facts = factsS,
                           !.intermediate_decisions.final_decision = final]
    IN  IF nurse.decision = "reject"
        THEN [ret |-> nurse,
              bb |-> [bbN EXCEPT !.intermediate_decisions.final_decision = nurse],
              evaluated |-> <<"nurse">>]
        ELSE IF needDoctor /\ doctor.decision = "reject"
        THEN [ret |-> doctor,
              bb |-> [bbD EXCEPT !.intermediate_decisions.final_decision = doctor],
              evaluated |-> seenD]
        ELSE IF ValidateFields(facts) /\ RecordIdRaises(facts)
        THEN [ret |-> SystemError("'str' object has no attribute 'strftime'"),
              bb |-> bbD,
              evaluated |-> Append(seenD, "staff")]
        ELSE [ret |-> final,
              bb |-> [bbF EXCEPT !.case_history =
                        Append(@, [facts |-> factsS,
                                   decisions |-> bbF.intermediate_decisions])],
              evaluated |-> Append(seenD, "staff")]

\* analyze_case: a new ControlShell for every call
AnalyzeCase(cd, wall) == ProcessCase(NewBlackboard, cd, wall)


(***************************************************************************)
(* The calls of analyze_case as a state machine: a case is handed in and   *)
(* the call returns.                                                       *)
(***************************************************************************)
NoResult == None

\* what datetime.now() may return when analyze_case is called on its own
WallClocks == {DateTime(2026, 11, 1, 8, 30), DateTime(2026, 11, 1, 8, 31)}

\* symptoms a caller may list: one of the nurse's vocabulary with capitals, one
\* the generator produces that is in no vocabulary, and a complex condition
SymptomPool == {"Cough", "stomach ache", "Recurring Fever"}

RECURSIVE SeqsUpTo(_, _)
SeqsUpTo(S, n) ==
    IF n = 0 THEN {<<>>}
    ELSE LET shorter == SeqsUpTo(S, n - 1)
         IN  shorter \cup {Append(q, x) : q \in {r \in shorter : Len(r) = n - 1}, x \in S}

Absent == [t |-> "absent"]

\* the values a caller may give each key; Absent leaves the key out.  Among
\* them are values of the wrong type: symptoms that are None or hold an int,
\* and a timestamp that is a string.
FactChoices ==
    [student_id |-> {Absent, None, Str(""), Str("S0001")},
     has_excuse_letter |-> {Absent, Bool(TRUE), Bool(FALSE)},
     valid_id |-> {Absent, Bool(TRUE), Bool(FALSE)},
     symptoms |-> {Absent, None}
                  \cup {List(l) : l \in SeqsUpTo(SymptomPool, MaxSymptoms)}
                  \cup UNION {{ListWithInt(l, i) : i \in 1..(Len(l) + 1)} :
                                  l \in SeqsUpTo(SymptomPool, 1)},
     illness_type |-> {Absent, Str("simple"), Str("complex")},
     timestamp |-> {Absent, None, DateTime(2026, 11, 1, 8, 30), Str("2026-11-01")}]

FactKeys == DOMAIN FactChoices

\* the mapping that holds the chosen values, without the keys left out
MakeCase(choice) ==
    [k \in {key \in FactKeys : choice[key] # Absent} |-> choice[k]]

\* an argument of analyze_case that is no mapping
NotAMapping == IntValue(5)



(***************************************************************************)
(* simulation.py: configuration, time, the event queue and the pools       *)
(***************************************************************************)
\* minutes to ticks
Minutes(m) == 2 * m

\* yield self.env.timeout(1.5): the visualization delay, in ticks
VisualizationDelay == 3

Pools == {"nurses", "doctors", "staff"}

\* The runs that are modelled.  ClinicConfig holds the capacities and the
\* process times (minutes); duration_hours and event_callback are the other
\* arguments of run_simulation.  The callback either returns or may raise.
\* The last four have a capacity or a duration that is not positive.
Configs ==
    {[MAX_NURSES |-> 3, MAX_DOCTORS |-> 1, MAX_STAFF |-> 1,
      NURSE_PROCESS_TIME |-> 10, DOCTOR_PROCESS_TIME |-> 15, STAFF_PROCESS_TIME |-> 5,
      duration_hours |-> 2, callback |-> "raises"],
     [MAX_NURSES |-> 1, MAX_DOCTORS |-> 1, MAX_STAFF |-> 1,
      NURSE_PROCESS_TIME |-> 30, DOCTOR_PROCESS_TIME |-> 15, STAFF_PROCESS_TIME |-> 5,
      duration_hours |-> 2, callback |-> "returns"],
     [MAX_NURSES |-> 3, MAX_DOCTORS |-> 1, MAX_STAFF |-> 1,
      NURSE_PROCESS_TIME |-> 10, DOCTOR_PROCESS_TIME |-> 15, STAFF_PROCESS_TIME |-> 37,
      duration_hours |-> 2, callback |-> "returns"],
     [MAX_NURSES |-> 0, MAX_DOCTORS |-> 1, MAX_STAFF |-> 1,
      NURSE_PROCESS_TIME |-> 10, DOCTOR_PROCESS_TIME |-> 15, STAFF_PROCESS_TIME |-> 5,
      duration_hours |-> 2, callback |-> "returns"],
     [MAX_NURSES |-> 3, MAX_DOCTORS |-> -1, MAX_STAFF |-> 1,
      NURSE_PROCESS_TIME |-> 10, DOCTOR_PROCESS_TIME |-> 15, STAFF_PROCESS_TIME |-> 5,
      duration_hours |-> 2, callback |-> "returns"],
     [MAX_NURSES |-> 3, MAX_DOCTORS |-> 1, MAX_STAFF |-> 0,
      NURSE_PROCESS_TIME |-> 10, DOCTOR_PROCESS_TIME |-> 15, STAFF_PROCESS_TIME |-> 5,
      duration_hours |-> 2, callback |-> "returns"],
     [MAX_NURSES |-> 3, MAX_DOCTORS |-> 1, MAX_STAFF |-> 1,
      NURSE_PROCESS_TIME |-> 10, DOCTOR_PROCESS_TIME |-> 15, STAFF_PROCESS_TIME |-> 5,
      duration_hours |-> 0, callback |-> "returns"]}

\* simpy.Resource(env, capacity=...) raises ValueError unless capacity > 0
ResourceRaises(c) == c.MAX_NURSES <= 0 \/ c.MAX_DOCTORS <= 0 \/ c.MAX_STAFF <= 0

\* RunRaises that lets a run of length 0 start
RunRaisesNegativeOnly(c) == Minutes(c.duration_hours * 60) < 0

\* env.run(until=duration_hours * 60) raises ValueError unless until > env.now,
\* which is 0 when run_simulation calls it
RunRaises(c) == Minutes(c.duration_hours * 60) <= 0

\* Capacity with the staff pool built from MAX_NURSES
CapacityStaffFromNurses(p) ==
    CASE p = "nurses" -> config.MAX_NURSES
      [] p = "doctors" -> config.MAX_DOCTORS
      [] p = "staff" -> config.MAX_NURSES

\* ClinicSimulation.__init__: simpy.Resource(env, capacity=...) of each pool
Capacity(p) ==
    CASE p = "nurses" -> config.MAX_NURSES
      [] p = "doctors" -> config.MAX_DOCTORS
      [] p = "staff" -> config.MAX_STAFF

\* env.run(until=duration_hours * 60), in ticks
Until == Minutes(config.duration_hours * 60)

\* ClinicSimulation.peak_hours, in half hours: (10, 11.5) and (13.5, 17)
peak_hours == {[start |-> 20, end |-> 23], [start |-> 27, end |-> 34]}

\* is_peak_hour(time) for time = num / den:
\*   current_hour = (time / 60) % 24;  any(start <= current_hour <= end)
IsPeakHour(num, den) ==
    LET m == num % (24 * 60 * den)
    IN  \E h \in peak_hours : h.start * 60 * den <= 2 * m /\ 2 * m <= h.end * 60 * den

\* get_arrival_rate at env.now = t ticks: current_hour = (now / 60) % 24 is
\* handed to is_peak_hour; random.uniform(5, 10) or random.uniform(15, 25)
\* minutes, of which the ends of the range are drawn here (in ticks)
ArrivalGaps(t) ==
    IF IsPeakHour(t % (24 * 60 * 2), 60 * 2)
    THEN {Minutes(5), Minutes(10)}
    ELSE {Minutes(15), Minutes(25)}

(* The event queue of the environment: events are kept in the order        *)
(* (time, priority, insertion).  Process starts are urgent (priority 0),   *)
(* every other event is normal (priority 1).  An event also records the    *)
(* virtual time at which it was scheduled (at).                            *)
Event(t, prio, kind, who, pool) ==
    [t |-> t, prio |-> prio, kind |-> kind, who |-> who, pool |-> pool, at |-> t]

\* Schedule that puts an event before the pending ones of its time and priority
ScheduleNewestFirst(q, ev) ==
    LET k == Cardinality({i \in 1..Len(q) :
                            \/ q[i].t < ev.t
                            \/ q[i].t = ev.t /\ q[i].prio < ev.prio})
    IN  SubSeq(q, 1, k) \o <<ev>> \o SubSeq(q, k + 1, Len(q))

Schedule(q, ev) ==
    LET k == Cardinality({i \in 1..Len(q) :
                            \/ q[i].t < ev.t
                            \/ q[i].t = ev.t /\ q[i].prio <= ev.prio})
    IN  SubSeq(q, 1, k) \o <<ev>> \o SubSeq(q, k + 1, Len(q))

(* The part of the state a step of a process works on: the time of the     *)
(* event being processed, the pools and the event queue.                   *)
World(t, q) ==
    [now |-> t, users |-> users, put_queue |-> put_queue, queue |-> q,
     requested |-> requested, granted |-> granted, notified |-> notified]

\* Resource._trigger_put: the head of the wait queue gets a unit if one is free
TriggerPut(p, w) ==
    IF Len(w.put_queue[p]) > 0 /\ Len(w.users[p]) < Capacity(p)
    THEN LET s == Head(w.put_queue[p])
         IN  [w EXCEPT !.users[p] = Append(@, s),
                       !.granted[p] = Append(@, s),
                       !.put_queue[p] = Tail(@),
                       !.queue = Schedule(@, Event(w.now, 1, "request", s, p))]
    ELSE w

\* Enqueue with the newest request served first
EnqueueFront(q, s) == <<s>> \o q

\* pool.request() of a `with` statement: the request joins the wait queue
Enqueue(q, s) == Append(q, s)

Request(p, s, w) ==
    TriggerPut(p, [w EXCEPT !.put_queue[p] = Enqueue(@, s),
                            !.requested[p] = Append(@, s)])

\* Release that gives the unit back without telling the pool's waiters
ReleaseUnannounced(p, s, w) ==
    [w EXCEPT !.users[p] = SelectSeq(@, LAMBDA x : x # s)]

\* Release whose release event is processed a tick later
ReleaseDeferred(p, s, w) ==
    [w EXCEPT !.users[p] = SelectSeq(@, LAMBDA x : x # s),
              !.queue = Schedule(@, Event(w.now + 1, 1, "release", 0, p))]

\* leaving a `with pool.request()` block: the unit is given back, and the
\* release event, once processed, triggers the next grant
Release(p, s, w) ==
    [w EXCEPT !.users[p] = SelectSeq(@, LAMBDA x : x # s),
              !.queue = Schedule(@, Event(w.now, 1, "release", 0, p))]

\* env.timeout(delay) yielded by process `who`
Timeout(who, delay, w) ==
    [w EXCEPT !.queue = Schedule(@, [Event(w.now + delay, 1, "timeout", who, "")
                                        EXCEPT !.at = w.now])]


(***************************************************************************)
(* simulation.py: students                                                 *)
(***************************************************************************)
\* What Student.__init__ may draw: has_excuse_letter, has_valid_id (False
\* without a letter) and the list _generate_symptoms returns.  One draw
\* for each way the pipeline can end.
StudentDraws ==
    {[has_excuse_letter |-> FALSE, has_valid_id |-> FALSE, symptoms |-> <<"cough">>],
     [has_excuse_letter |-> TRUE, has_valid_id |-> FALSE, symptoms |-> <<"flu">>],
     [has_excuse_letter |-> TRUE, has_valid_id |-> TRUE, symptoms |-> <<"cough", "fever">>],
     [has_excuse_letter |-> TRUE, has_valid_id |-> TRUE,
      symptoms |-> <<"stomach ache", "chronic pain">>],
     [has_excuse_letter |-> TRUE, has_valid_id |-> TRUE, symptoms |-> <<"chronic pain">>]}

\* Student._generate_case
GenerateCase(id, draw, wall) ==
    [student_id |-> Str("S" \o Pad4(id)),
     has_excuse_letter |-> Bool(draw.has_excuse_letter),
     valid_id |-> Bool(draw.has_valid_id),
     symptoms |-> List(draw.symptoms),
     illness_type |-> Str(IF Len(draw.symptoms) > 2 THEN "complex" ELSE "simple"),
     timestamp |-> wall,
     parent_guardian_verified |-> Bool(draw.has_valid_id)]

\* Student.__init__, and the state of the student's process_student process:
\* where it is suspended (pc), its local results, the status it completed
\* with and how many times complete_student was called for it
NewStudent(id, t, draw, wall) ==
    [id |-> id,
     arrival_time |-> t,
     has_excuse_letter |-> draw.has_excuse_letter,
     has_valid_id |-> draw.has_valid_id,
     case_details |-> GenerateCase(id, draw, wall),
     process_times |-> [wait_start |-> 0, nurse_start |-> 0, doctor_start |-> 0,
                        completion |-> 0],
     pc |-> "start",
     nurse_result |-> NoResult,
     doctor_result |-> NoResult,
     status |-> "",
     reason |-> "",
     completions |-> 0]

\* result.get(key) on a decision record; "None" when the key is absent
DGet(d, k) == IF k \in DOMAIN d THEN d[k] ELSE "None"

(***************************************************************************)
(* main.py: MedicalCertificateSystem, the controller of the window         *)
(***************************************************************************)
MaxThreads == 2         \* simulation threads alive at a time

\* the entry fields run_simulation reads, in the order it reads them
Fields ==
    <<"doctors_var", "nurses_var", "duration_var", "nurse_inquiry_var",
      "simple_case_var", "complex_case_var", "finalization_var">>

FieldNames == {Fields[i] : i \in 1..Len(Fields)}

\* create_simulation_controls: the text each field starts with
DefaultEntries ==
    [doctors_var |-> "2", nurses_var |-> "3", duration_var |-> "8",
     nurse_inquiry_var |-> "5", simple_case_var |-> "3",
     complex_case_var |-> "10", finalization_var |-> "2"]

\* what the user may type into a field instead: a decimal number, or nothing
TypedTexts == {"1.5", ""}

IsDigit(c) == Contains(Digits, c)

\* int(text) returns: the text is a run of digits (signs, blanks and
\* underscores are not among the texts typed here)
IntParses(text) ==
    /\ Len(text) > 0
    /\ \A i \in 1..Len(text) : IsDigit(SubSeq(text, i, i))

\* float(text) returns: digits with at most one point among them
FloatParses(text) ==
    /\ \E i \in 1..Len(text) : IsDigit(SubSeq(text, i, i))
    /\ \A i \in 1..Len(text) : IsDigit(SubSeq(text, i, i)) \/ SubSeq(text, i, i) = "."
    /\ Cardinality({i \in 1..Len(text) : SubSeq(text, i, i) = "."}) <= 1

\* lines 486-492: one of the conversions raises ValueError
EntriesRaise(entries) ==
    \E f \in FieldNames :
        IF f = "duration_var" THEN ~FloatParses(entries[f]) ELSE ~IntParses(entries[f])

\* MedicalCertificateSystem.__init__ and create_simulation_controls
NewGui ==
    [is_simulating |-> FALSE,
     entries |-> DefaultEntries,
     sim_threads |-> <<>>,
     message |-> ""]

(***************************************************************************)
(* simulation.py: ClinicSimulation                                         *)
(***************************************************************************)
\* ClinicSimulation.__init__: self.stats
InitialStats ==
    [total_students |-> 0,
     certificates_issued |-> 0,
     students_in_system |-> 0,
     total_wait_time |-> 0,
     nurse_utilization |-> 0,
     doctor_utilization |-> 0,
     nurse_decisions |-> [refer |-> 0, treat |-> 0],
     doctor_decisions |-> [issue |-> 0, deny |-> 0],
     peak_hour_visits |-> 0,
     off_peak_visits |-> 0,
     simple_cases |-> 0,
     complex_cases |-> 0]

\* what datetime.now() returns during a simulated run
SimClocks == {DateTime(2026, 11, 1, 8, 30)}

\* datetime.now() during a second run of the simulation
LaterClocks == {DateTime(2026, 11, 1, 8, 31)}

\* datetime.now() during the run
Clocks == IF replay.pass = 1 THEN SimClocks ELSE LaterClocks

\* the random stream before the first run has drawn from it
FreshStream == [pass |-> 1, gaps |-> <<>>, draws |-> <<>>, first |-> NoResult]

\* the stream after the run drew the delays `g` and the students `d` from it:
\* the first run's values are kept, the second run adds nothing
Drawn(g, d) ==
    IF replay.pass = 1
    THEN [replay EXCEPT !.gaps = @ \o g, !.draws = @ \o d]
    ELSE replay

\* GapChoices that draws afresh in the second run
GapChoicesUnseeded(t, n) == ArrivalGaps(t)

\* random.uniform of get_arrival_rate, for the delay drawn after n earlier
\* ones: any value of the range in the first run, and in a second run on the
\* same seed the value the first run got at this place of the stream (a place
\* the first run did not draw from is any value of the range)
GapChoices(t, n) ==
    IF replay.pass = 2 /\ n + 1 <= Len(replay.gaps)
    THEN {replay.gaps[n + 1]}
    ELSE ArrivalGaps(t)

\* the random draws of Student.__init__ for the n-th student, likewise
DrawChoices(n) ==
    IF replay.pass = 1 THEN StudentDraws ELSE {replay.draws[n]}

\* whether the callback raises when update_statistics calls it
RaiseChoices == IF config.callback = "raises" THEN BOOLEAN ELSE {FALSE}

\* notify_event / update_statistics: the callback is called with an event
Notify(ev, w) == [w EXCEPT !.notified = Append(@, ev)]

\* the snapshot update_statistics hands to the callback (lines 255-274), of
\* which Patients in System and Certificates Issued are kept
StatsEvent(st) ==
    [type |-> "stats", in_system |-> st.students_in_system,
     certificates |-> st.certificates_issued]

\* complete_student that takes the snapshot before it updates the statistics
CompleteStudentSnapshotFirst(r, status, reason) ==
    LET completion == r.w.now
        wait_time == completion - r.student.process_times.wait_start
        done == [r EXCEPT !.student.process_times.completion = completion,
                          !.student.status = status,
                          !.student.reason = reason,
                          !.student.completions = @ + 1,
                          !.stats.total_wait_time = @ + wait_time,
                          !.stats.students_in_system = @ - 1]
    IN  [done EXCEPT !.w = Notify([type |-> "completion", id |-> r.student.id,
                                   status |-> status],
                                  Notify(StatsEvent(r.stats), done.w))]

\* complete_student that measures the wait from the start with the nurse
CompleteStudentFromNurseStart(r, status, reason) ==
    LET completion == r.w.now
        wait_time == completion - r.student.process_times.nurse_start
    IN  [r EXCEPT !.student.process_times.completion = completion,
                  !.student.status = status,
                  !.student.reason = reason,
                  !.student.completions = @ + 1,
                  !.stats.total_wait_time = @ + wait_time,
                  !.stats.students_in_system = @ - 1]

\* complete_student with the subtraction of the wait time the other way round
CompleteStudentWaitReversed(r, status, reason) ==
    LET completion == r.w.now
        wait_time == r.student.process_times.wait_start - completion
    IN  [r EXCEPT !.student.process_times.completion = completion,
                  !.student.status = status,
                  !.student.reason = reason,
                  !.student.completions = @ + 1,
                  !.stats.total_wait_time = @ + wait_time,
                  !.stats.students_in_system = @ - 1]

\* complete_student that leaves students_in_system as it is
CompleteStudentKeepsCount(r, status, reason) ==
    LET completion == r.w.now
        wait_time == completion - r.student.process_times.wait_start
        done == [r EXCEPT !.student.process_times.completion = completion,
                          !.student.status = status,
                          !.student.reason = reason,
                          !.student.completions = @ + 1,
                          !.stats.total_wait_time = @ + wait_time]
    IN  [done EXCEPT !.w = Notify(StatsEvent(done.stats),
                                  Notify([type |-> "completion", id |-> r.student.id,
                                          status |-> status], done.w))]

\* complete_student: the completion time, the wait time and the in-system
\* count, then the completion event and the statistics snapshot.
\* (notify_event catches what the callback raises; update_statistics does
\* not, see EndProcess.)
CompleteStudent(r, status, reason) ==
    LET completion == r.w.now
        wait_time == completion - r.student.process_times.wait_start
        done == [r EXCEPT !.student.process_times.completion = completion,
                          !.student.status = status,
                          !.student.reason = reason,
                          !.student.completions = @ + 1,
                          !.stats.total_wait_time = @ + wait_time,
                          !.stats.students_in_system = @ - 1]
    IN  [done EXCEPT !.w = Notify(StatsEvent(done.stats),
                                  Notify([type |-> "completion", id |-> r.student.id,
                                          status |-> status], done.w))]

RECURSIVE ReleaseAll(_, _, _)
ReleaseAll(held, s, w) ==
    IF held = <<>> THEN w ELSE ReleaseAll(Tail(held), s, Release(Head(held), s, w))

\* EndProcess that gives nothing back when the process ends by an exception
EndProcessKeepsOnError(r, held, raised) ==
    IF raised
    THEN [r EXCEPT !.student.pc = "failed",
                   !.w.queue = Schedule(@, Event(r.w.now, 1, "fail", r.student.id, ""))]
    ELSE [r EXCEPT !.student.pc = "done", !.w = ReleaseAll(held, r.student.id, r.w)]

\* The process leaves its `with` blocks, innermost first (`held`), and ends:
\* by return, or by the exception update_statistics let through, which
\* fails the process (the failure is an event of its own).
EndProcess(r, held, raised) ==
    LET w == ReleaseAll(held, r.student.id, r.w)
    IN  IF raised
        THEN [r EXCEPT !.student.pc = "failed",
                       !.w = [w EXCEPT !.queue =
                                Schedule(@, Event(w.now, 1, "fail", r.student.id, ""))]]
        ELSE [r EXCEPT !.student.pc = "done", !.w = w]

\* ArriveAndRequestNurse that does not count the student as in the system
ArriveUncounted(r) ==
    LET arrival_time == r.w.now
        peak == IsPeakHour(arrival_time, 60 * 2)
    IN  [r EXCEPT !.student.process_times.wait_start = arrival_time,
                  !.student.pc = "wait_nurse",
                  !.stats.peak_hour_visits = IF peak THEN @ + 1 ELSE @,
                  !.stats.off_peak_visits = IF peak THEN @ ELSE @ + 1,
                  !.w = Request("nurses", r.student.id, r.w)]

\* process_student, lines 137-158: arrival bookkeeping, the arrival event,
\* then the nurse request
ArriveAndRequestNurse(r) ==
    LET arrival_time == r.w.now
        peak == IsPeakHour(arrival_time, 60 * 2)
    IN  [r EXCEPT !.student.process_times.wait_start = arrival_time,
                  !.student.pc = "wait_nurse",
                  !.stats.students_in_system = @ + 1,
                  !.stats.peak_hour_visits = IF peak THEN @ + 1 ELSE @,
                  !.stats.off_peak_visits = IF peak THEN @ ELSE @ + 1,
                  !.w = Request("nurses", r.student.id,
                                Notify([type |-> "student", id |-> r.student.id], r.w))]

\* lines 159-162
AfterNurseRequest(r) ==
    [r EXCEPT !.student.process_times.nurse_start = r.w.now,
              !.student.pc = "nurse_delay",
              !.w = Timeout(r.student.id, VisualizationDelay, r.w)]

\* lines 165-166
AfterNurseDelay(r, wall) ==
    [r EXCEPT !.student.nurse_result = AnalyzeCase(r.student.case_details, wall).ret,
              !.student.pc = "nurse_process",
              !.w = Timeout(r.student.id, Minutes(config.NURSE_PROCESS_TIME), r.w)]

\* line 182: whether the doctor is consulted
NeedsDoctor(nurse_result) ==
    \/ DGet(nurse_result, "decision") = "refer"
    \/ DGet(nurse_result, "complexity") = "complex"

\* AfterNurseProcess without the `return` of line 171: the rejected case goes
\* on to the staff pool
AfterNurseProcessNoReturn(r, raised) ==
    LET nurse_result == r.student.nurse_result
        rejected == CompleteStudent([r EXCEPT !.stats.nurse_decisions.refer = @ + 1],
                                    "rejected_by_nurse", nurse_result.reason)
        counted == [r EXCEPT !.stats.nurse_decisions.treat = @ + 1,
                             !.stats.simple_cases = @ + 1]
    IN  IF nurse_result.decision = "reject" /\ raised
        THEN EndProcess(rejected, <<"nurses">>, raised)
        ELSE IF nurse_result.decision = "reject"
        THEN [rejected EXCEPT !.student.pc = "wait_staff",
                              !.w = Request("staff", r.student.id, r.w)]
        ELSE [counted EXCEPT !.student.pc = "wait_staff",
                             !.w = Request("staff", r.student.id, r.w)]

\* AfterNurseProcess that gives the nurse back before the next request
AfterNurseProcessReleasesNurse(r, raised) ==
    LET nurse_result == r.student.nurse_result
        complex == DGet(nurse_result, "complexity") = "complex"
    IN  IF nurse_result.decision = "reject"
        THEN EndProcess(
                CompleteStudent([r EXCEPT !.stats.nurse_decisions.refer = @ + 1],
                                "rejected_by_nurse", nurse_result.reason),
                <<"nurses">>, raised)
        ELSE [r EXCEPT !.stats.nurse_decisions.treat = @ + 1,
                       !.stats.complex_cases = IF complex THEN @ + 1 ELSE @,
                       !.stats.simple_cases = IF complex THEN @ ELSE @ + 1,
                       !.student.pc = "wait_staff",
                       !.w = Request("staff", r.student.id,
                                     Release("nurses", r.student.id, r.w))]

\* lines 168-203, from the nurse's result to the next request
AfterNurseProcess(r, raised) ==
    LET nurse_result == r.student.nurse_result
        complex == DGet(nurse_result, "complexity") = "complex"
    IN  IF nurse_result.decision = "reject"
        THEN EndProcess(
                CompleteStudent([r EXCEPT !.stats.nurse_decisions.refer = @ + 1],
                                "rejected_by_nurse", nurse_result.reason),
                <<"nurses">>, raised)
        ELSE LET counted ==
                    [r EXCEPT !.stats.nurse_decisions.treat = @ + 1,
                              !.stats.complex_cases = IF complex THEN @ + 1 ELSE @,
                              !.stats.simple_cases = IF complex THEN @ ELSE @ + 1]
             IN  IF NeedsDoctor(nurse_result)
                 THEN [counted EXCEPT !.student.pc = "wait_doctor",
                                      !.w = Request("doctors", r.student.id, r.w)]
                 ELSE [counted EXCEPT !.student.pc = "wait_staff",
                                      !.w = Request("staff", r.student.id, r.w)]

\* lines 184-188
AfterDoctorRequest(r) ==
    [r EXCEPT !.student.process_times.doctor_start = r.w.now,
              !.student.pc = "doctor_delay",
              !.w = Timeout(r.student.id, VisualizationDelay, r.w)]

\* lines 190-191
AfterDoctorDelay(r, wall) ==
    [r EXCEPT !.student.doctor_result = AnalyzeCase(r.student.case_details, wall).ret,
              !.student.pc = "doctor_process",
              !.w = Timeout(r.student.id, Minutes(config.DOCTOR_PROCESS_TIME), r.w)]

\* lines 193-202: the doctor's result, the end of the doctor block, the staff request
AfterDoctorProcess(r, raised) ==
    LET doctor_result == r.student.doctor_result
    IN  IF doctor_result.decision = "reject"
        THEN EndProcess(
                CompleteStudent([r EXCEPT !.stats.doctor_decisions.deny = @ + 1],
                                "rejected_by_doctor", doctor_result.reason),
                <<"doctors", "nurses">>, raised)
        ELSE LET counted ==
                    IF doctor_result.decision = "approve"
                    THEN [r EXCEPT !.stats.doctor_decisions.issue = @ + 1]
                    ELSE r
                 released == Release("doctors", r.student.id, r.w)
             IN  [counted EXCEPT !.student.pc = "wait_staff",
                                 !.w = Request("staff", r.student.id, released)]

\* lines 202-203
AfterStaffRequest(r) ==
    [r EXCEPT !.student.pc = "staff_process",
              !.w = Timeout(r.student.id, Minutes(config.STAFF_PROCESS_TIME), r.w)]

\* lines 205-206
AfterStaffProcess(r) ==
    [r EXCEPT !.student.pc = "staff_delay",
              !.w = Timeout(r.student.id, VisualizationDelay, r.w)]

\* lines 208-210
AfterStaffDelay(r, raised) ==
    EndProcess(
        CompleteStudent([r EXCEPT !.stats.certificates_issued = @ + 1],
                        "certificate_issued",
                        IF DGet(r.student.nurse_result, "complexity") = "complex"
                        THEN "Approved by doctor" ELSE "Approved by nurse"),
        <<"staff", "nurses">>, raised)


(***************************************************************************)
(* simulation.py: run_simulation                                           *)
(***************************************************************************)
\* lines 307-328: the record run_simulation returns (ratios as fractions)
FinalStats ==
    LET seen == IF stats.total_students > 1 THEN stats.total_students ELSE 1
    IN  [total_patients |-> stats.total_students,
         patients_seen |-> stats.total_students,
         certificates_issued |-> stats.certificates_issued,
         average_wait_time |-> [num |-> stats.total_wait_time, den |-> seen],
         certificate_issuance_rate |->
            [num |-> stats.certificates_issued * 100, den |-> seen],
         simulation_duration_hours |-> config.duration_hours,
         num_doctors |-> config.MAX_DOCTORS,
         num_nurses |-> config.MAX_NURSES,
         nurse_decisions |-> stats.nurse_decisions,
         doctor_decisions |-> stats.doctor_decisions,
         simple_cases |-> stats.simple_cases,
         complex_cases |-> stats.complex_cases,
         peak_hour_visits |-> stats.peak_hour_visits,
         off_peak_visits |-> stats.off_peak_visits]

\* lines 332-350: the record of the except branch, for the exception `msg`
ErrorRecord(msg) ==
    [error |-> msg,
     total_patients |-> 0,
     patients_seen |-> 0,
     certificates_issued |-> 0,
     average_wait_time |-> [num |-> 0, den |-> 1],
     certificate_issuance_rate |-> [num |-> 0, den |-> 1],
     simulation_duration_hours |-> config.duration_hours,
     num_doctors |-> config.MAX_DOCTORS,
     num_nurses |-> config.MAX_NURSES,
     nurse_decisions |-> [refer |-> 0, treat |-> 0],
     doctor_decisions |-> [issue |-> 0, deny |-> 0],
     simple_cases |-> 0,
     complex_cases |-> 0,
     peak_hour_visits |-> 0,
     off_peak_visits |-> 0]

\* the record of the except branch when the callback raised
ErrorStats == ErrorRecord("callback raised")

\* the event env.run processes next, if the run goes on
Running == run = "running" /\ queue # <<>> /\ Head(queue).t < Until

Next_event == Head(queue)

\* the state a process step leaves
Apply(r) ==
    /\ students' = [students EXCEPT ![r.student.id] = r.student]
    /\ stats' = r.stats
    /\ now' = r.w.now
    /\ users' = r.w.users
    /\ put_queue' = r.w.put_queue
    /\ queue' = r.w.queue
    /\ requested' = r.w.requested
    /\ granted' = r.w.granted
    /\ notified' = r.w.notified
    /\ UNCHANGED gui

\* what a step of student s starts from
StepOf(s) == [student |-> students[s], stats |-> stats,
              w |-> World(Next_event.t, Tail(queue))]

\* student_generator starts: its first timeout (line 292)
GeneratorStart ==
    /\ Running
    /\ Next_event.kind = "init" /\ Next_event.who = 0
    /\ \E gap \in GapChoices(Next_event.t, 0) :
          LET w == Timeout(0, gap, World(Next_event.t, Tail(queue)))
          IN  /\ now' = w.now
              /\ queue' = w.queue
              /\ replay' = Drawn(<<gap>>, <<>>)
    /\ UNCHANGED <<users, put_queue, students, stats, config, run, final_stats>>
    /\ UNCHANGED <<requested, granted, expertVars>>
    /\ UNCHANGED <<notified, gui>>

\* student_generator, lines 293-298 and the next line 292: a student arrives,
\* its process is started, and the next arrival is scheduled
GeneratorArrival ==
    /\ Running
    /\ Next_event.kind = "timeout" /\ Next_event.who = 0
    /\ \E draw \in DrawChoices(stats.total_students + 1), wall \in Clocks,
          gap \in GapChoices(Next_event.t, stats.total_students + 1) :
          LET t == Next_event.t
              student_id == stats.total_students + 1
              started == Schedule(Tail(queue), Event(t, 0, "init", student_id, ""))
              w == World(t, started)
          IN  /\ stats' = [stats EXCEPT !.total_students = @ + 1]
              /\ students' = [i \in 1..student_id |->
                                IF i = student_id
                                THEN NewStudent(student_id, t, draw, wall)
                                ELSE students[i]]
              /\ now' = t
              /\ queue' = IF student_id < MaxStudents
                          THEN Timeout(0, gap, w).queue
                          ELSE started
              /\ replay' = Drawn(IF student_id < MaxStudents THEN <<gap>> ELSE <<>>,
                                 <<draw>>)
    /\ UNCHANGED <<users, put_queue, config, run, final_stats>>
    /\ UNCHANGED <<requested, granted, expertVars>>
    /\ UNCHANGED <<notified, gui>>

\* process_student starts (lines 137-158)
ProcessStart ==
    /\ Running
    /\ Next_event.kind = "init" /\ Next_event.who # 0
    /\ Apply(ArriveAndRequestNurse(StepOf(Next_event.who)))
    /\ UNCHANGED <<config, run, final_stats, replay>>
    /\ UNCHANGED expertVars

\* a process resumes after `yield` of the request it was granted
RequestGranted ==
    /\ Running
    /\ Next_event.kind = "request"
    /\ LET r == StepOf(Next_event.who)
           pc == r.student.pc
       IN  Apply(CASE pc = "wait_nurse" -> AfterNurseRequest(r)
                   [] pc = "wait_doctor" -> AfterDoctorRequest(r)
                   [] pc = "wait_staff" -> AfterStaffRequest(r))
    /\ UNCHANGED <<config, run, final_stats, replay>>
    /\ UNCHANGED expertVars

\* a process resumes after `yield self.env.timeout(...)`
TimeoutElapsed ==
    /\ Running
    /\ Next_event.kind = "timeout" /\ Next_event.who # 0
    /\ \E raised \in RaiseChoices, wall \in Clocks :
          LET r == StepOf(Next_event.who)
              pc == r.student.pc
          IN  Apply(CASE pc = "nurse_delay" -> AfterNurseDelay(r, wall)
                      [] pc = "nurse_process" -> AfterNurseProcess(r, raised)
                      [] pc = "doctor_delay" -> AfterDoctorDelay(r, wall)
                      [] pc = "doctor_process" -> AfterDoctorProcess(r, raised)
                      [] pc = "staff_process" -> AfterStaffProcess(r)
                      [] pc = "staff_delay" -> AfterStaffDelay(r, raised))
    /\ UNCHANGED <<config, run, final_stats, replay>>
    /\ UNCHANGED expertVars

\* a release event is processed: the pool grants its next waiter
ReleaseProcessed ==
    /\ Running
    /\ Next_event.kind = "release"
    /\ LET w == TriggerPut(Next_event.pool, World(Next_event.t, Tail(queue)))
       IN  /\ now' = w.now
           /\ users' = w.users
           /\ put_queue' = w.put_queue
           /\ queue' = w.queue
           /\ requested' = w.requested
           /\ granted' = w.granted
    /\ UNCHANGED <<students, stats, config, run, final_stats, replay>>
    /\ UNCHANGED expertVars
    /\ UNCHANGED <<notified, gui>>

\* the failure of a process is processed: env.run raises, and run_simulation
\* returns the record of its except branch (lines 332-350)
ProcessFailed ==
    /\ Running
    /\ Next_event.kind = "fail"
    /\ now' = Next_event.t
    /\ queue' = Tail(queue)
    /\ run' = "error"
    /\ final_stats' = ErrorStats
    /\ UNCHANGED <<users, put_queue, students, stats, config>>
    /\ UNCHANGED <<requested, granted, replay, expertVars>>
    /\ UNCHANGED <<notified, gui>>

\* env.run(until=...) returns: no event is left before `until`
RunReturns ==
    /\ run = "running"
    /\ IF queue = <<>> THEN TRUE ELSE Head(queue).t >= Until
    /\ now' = Until
    /\ run' = "returned"
    /\ final_stats' = FinalStats
    /\ UNCHANGED <<users, put_queue, students, stats, config, queue>>
    /\ UNCHANGED <<requested, granted, replay, expertVars>>
    /\ UNCHANGED <<notified, gui>>

\* run_simulation, lines 278-304: the clinic is built (the pools raise on a
\* capacity that is not positive), the generator process is created and
\* env.run is entered (it raises on a run length that is not positive); an
\* exception ends the call in the except branch, before any event is processed
StartRun ==
    /\ run = "called"
    /\ IF ResourceRaises(config)
       THEN /\ run' = "error"
            /\ final_stats' = ErrorRecord("\"capacity\" must be > 0.")
            /\ queue' = queue
       ELSE IF RunRaises(config)
       THEN /\ run' = "error"
            /\ final_stats' = ErrorRecord("until must be > the current simulation time.")
            /\ queue' = <<Event(0, 0, "init", 0, "")>>
       ELSE /\ run' = "running"
            /\ final_stats' = final_stats
            /\ queue' = <<Event(0, 0, "init", 0, "")>>
    /\ UNCHANGED <<config, now, users, put_queue, students, stats>>
    /\ UNCHANGED <<requested, granted, replay, expertVars>>
    /\ UNCHANGED <<notified, gui>>

\* run_simulation has been called with a configuration
InitSim ==
    /\ config \in Configs
    /\ now = 0
    /\ queue = <<>>
    /\ users = [p \in Pools |-> <<>>]
    /\ put_queue = [p \in Pools |-> <<>>]
    /\ students = <<>>
    /\ stats = InitialStats
    /\ run = "called"
    /\ final_stats = NoResult
    /\ requested = [p \in Pools |-> <<>>]
    /\ granted = [p \in Pools |-> <<>>]
    /\ replay = FreshStream
    /\ notified = <<>>
    /\ gui = NewGui

\* run_simulation is called again, with the same configuration and with the
\* random generator seeded as for the first run: a new environment, clinic and
\* statistics (lines 278-286), and the same stream of random values
RunAgain ==
    /\ run = "returned"
    /\ replay.pass = 1
    /\ config.callback = "returns"
    /\ replay' = [replay EXCEPT !.pass = 2, !.first = final_stats]
    /\ now' = 0
    /\ queue' = <<>>
    /\ users' = [p \in Pools |-> <<>>]
    /\ put_queue' = [p \in Pools |-> <<>>]
    /\ students' = <<>>
    /\ stats' = InitialStats
    /\ run' = "called"
    /\ final_stats' = NoResult
    /\ requested' = [p \in Pools |-> <<>>]
    /\ granted' = [p \in Pools |-> <<>>]
    /\ UNCHANGED config
    /\ UNCHANGED expertVars
    /\ notified' = <<>>
    /\ UNCHANGED gui

\* no call of analyze_case from outside the simulation
ExpertIdle ==
    /\ case_data = <<>>
    /\ blackboard = NewBlackboard
    /\ evaluated = <<>>
    /\ result = NoResult
    /\ earlier = NoResult

Init == InitSim /\ ExpertIdle

Next ==
    \/ StartRun
    \/ GeneratorStart
    \/ GeneratorArrival
    \/ ProcessStart
    \/ RequestGranted
    \/ TimeoutElapsed
    \/ ReleaseProcessed
    \/ ProcessFailed
    \/ RunReturns

Spec == Init /\ [][Next]_vars

(***************************************************************************)
(* The run with its scheduling: env.run processes the next event as long   *)
(* as one is left before `until`, and then returns.                        *)
(***************************************************************************)
\* env.run has an event to process: the states in which one of the actions
\* of the event loop (GeneratorStart, GeneratorArrival, ProcessStart,
\* RequestGranted, TimeoutElapsed, ReleaseProcessed, ProcessFailed), chosen
\* by the kind of the event, is enabled
EventDue == Running

\* env.run keeps processing: weak fairness of the event loop, of the start
\* of the run and of its return.  For the event loop it is written out,
\* WF_vars(A) being []<>~ENABLED <<A>>_vars \/ []<><<A>>_vars: a step of the
\* loop is enabled exactly when EventDue holds, and the steps that change the
\* state from there are its steps.
Fairness ==
    /\ WF_vars(StartRun)
    /\ WF_vars(RunReturns)
    /\ ([]<>~EventDue \/ []<><<EventDue>>_vars)

SpecLive == Init /\ [][Next]_vars /\ Fairness

(***************************************************************************)
(* The clock-dependent steps on their own: what the arrival bookkeeping of *)
(* process_student and the delay drawn by student_generator do when the    *)
(* environment's clock reads a given virtual time.                         *)
(***************************************************************************)
\* the virtual minutes at which the steps are taken: around the ends of both
\* peak intervals of the first day, on the second day, and past minute 36000
ClockMinutes ==
    {0, 60, 300, 599, 600, 630, 690, 691, 750, 809, 810, 900, 1020, 1021, 1200,
     2070, 2400, 36000, 36630}

\* a clinic whose environment has reached virtual time t, with nobody in it
InitClock ==
    /\ config \in {c \in Configs : c.callback = "raises"}
    /\ now \in {Minutes(m) : m \in ClockMinutes}
    /\ queue = <<>>
    /\ users = [p \in Pools |-> <<>>]
    /\ put_queue = [p \in Pools |-> <<>>]
    /\ students = <<>>
    /\ stats = InitialStats
    /\ run = "clock"
    /\ final_stats = NoResult
    /\ requested = [p \in Pools |-> <<>>]
    /\ granted = [p \in Pools |-> <<>>]
    /\ replay = FreshStream
    /\ ExpertIdle
    /\ notified = <<>>
    /\ gui = NewGui

\* process_student of a student arriving now, up to its nurse request
\* (lines 137-158)
ClockArrival ==
    /\ run = "clock"
    /\ students = <<>>
    /\ \E draw \in StudentDraws, wall \in SimClocks :
          LET r == ArriveAndRequestNurse(
                      [student |-> NewStudent(1, now, draw, wall),
                       stats |-> [stats EXCEPT !.total_students = 1],
                       w |-> World(now, queue)])
          IN  /\ students' = <<r.student>>
              /\ stats' = r.stats
              /\ users' = r.w.users
              /\ put_queue' = r.w.put_queue
              /\ queue' = r.w.queue
              /\ requested' = r.w.requested
              /\ granted' = r.w.granted
              /\ notified' = r.w.notified
              /\ UNCHANGED gui
    /\ UNCHANGED <<config, now, run, final_stats, replay>>
    /\ UNCHANGED expertVars

\* student_generator, line 292: yield env.timeout(get_arrival_rate()) now
ClockDelay ==
    /\ run = "clock"
    /\ ~\E i \in 1..Len(queue) : queue[i].kind = "timeout"
    /\ \E gap \in ArrivalGaps(now) :
          queue' = Timeout(0, gap, World(now, queue)).queue
    /\ UNCHANGED <<config, now, users, put_queue, students, stats, run, final_stats>>
    /\ UNCHANGED <<requested, granted, replay, expertVars>>
    /\ UNCHANGED <<notified, gui>>

NextClock == ClockArrival \/ ClockDelay

SpecClock == InitClock /\ [][NextClock]_vars

(***************************************************************************)
(* Two students arriving at the same virtual time: a clinic built as       *)
(* run_simulation builds it (lines 278-286), with the process_student      *)
(* processes of two students started at time 0 instead of the generator,   *)
(* and env.run(until=...) entered.                                         *)
(***************************************************************************)
InitPair ==
    /\ config \in {c \in Configs : ~ResourceRaises(c) /\ ~RunRaises(c)}
    /\ now = 0
    /\ queue = <<Event(0, 0, "init", 1, ""), Event(0, 0, "init", 2, "")>>
    /\ users = [p \in Pools |-> <<>>]
    /\ put_queue = [p \in Pools |-> <<>>]
    /\ \E d1 \in StudentDraws, d2 \in StudentDraws, wall \in SimClocks :
          students = <<NewStudent(1, 0, d1, wall), NewStudent(2, 0, d2, wall)>>
    /\ stats = [InitialStats EXCEPT !.total_students = 2]
    /\ run = "running"
    /\ final_stats = NoResult
    /\ requested = [p \in Pools |-> <<>>]
    /\ granted = [p \in Pools |-> <<>>]
    /\ replay = FreshStream
    /\ ExpertIdle
    /\ notified = <<>>
    /\ gui = NewGui

NextPair ==
    \/ ProcessStart
    \/ RequestGranted
    \/ TimeoutElapsed
    \/ ReleaseProcessed
    \/ ProcessFailed
    \/ RunReturns

SpecPair == InitPair /\ [][NextPair]_vars

(***************************************************************************)
(* Two runs of run_simulation, one after the other, on the same seed and   *)
(* configuration.                                                          *)
(***************************************************************************)
NextTwice == Next \/ RunAgain

SpecTwice == Init /\ [][NextTwice]_vars

(***************************************************************************)
(* analyze_case called on its own (expert_system_demo.py)                  *)
(***************************************************************************)
\* no simulation runs
SimIdle ==
    /\ config \in {c \in Configs : c.callback = "raises"}
    /\ now = 0
    /\ queue = <<>>
    /\ users = [p \in Pools |-> <<>>]
    /\ put_queue = [p \in Pools |-> <<>>]
    /\ students = <<>>
    /\ stats = InitialStats
    /\ run = "idle"
    /\ final_stats = NoResult
    /\ requested = [p \in Pools |-> <<>>]
    /\ granted = [p \in Pools |-> <<>>]
    /\ replay = FreshStream
    /\ notified = <<>>
    /\ gui = NewGui

InitExpert ==
    /\ SimIdle
    /\ \/ \E sid \in FactChoices.student_id, letter \in FactChoices.has_excuse_letter,
             vid \in FactChoices.valid_id, sym \in FactChoices.symptoms,
             ill \in FactChoices.illness_type, ts \in FactChoices.timestamp :
             case_data = MakeCase([student_id |-> sid, has_excuse_letter |-> letter,
                                   valid_id |-> vid, symptoms |-> sym,
                                   illness_type |-> ill, timestamp |-> ts])
       \/ case_data = NotAMapping
    /\ blackboard = NewBlackboard
    /\ evaluated = <<>>
    /\ result = NoResult
    /\ earlier = NoResult

\* result = analyze_case(case_data); the program may call it again with the
\* same mapping, at another wall-clock time, and every call builds its own
\* ControlShell (line 214)
Analyze ==
    /\ run = "idle"
    /\ earlier = NoResult
    /\ earlier' = result
    /\ \E wall \in WallClocks :
          LET out == AnalyzeCase(case_data, wall)
          IN  /\ result' = out.ret
              /\ blackboard' = out.bb
              /\ evaluated' = out.evaluated
    /\ UNCHANGED case_data
    /\ UNCHANGED simVars
    /\ UNCHANGED gui

NextExpert == Analyze

SpecExpert == InitExpert /\ [][NextExpert]_vars

(***************************************************************************)
(* Both uses of the pipeline: a simulated run, or a call of analyze_case   *)
(* on its own.                                                             *)
(***************************************************************************)
(***************************************************************************)
(* The cases of the generator's simple branch, handed to analyze_case.     *)
(***************************************************************************)
\* Student._generate_symptoms: the list the simple branch draws from
simple_symptoms ==
    <<"cold", "flu", "cough", "headache", "fever", "stomach ache", "sore throat">>

\* random.sample(population, n): n entries of the list, none of them twice,
\* in any order
Sample(population, n) ==
    {q \in SeqsUpTo({population[i] : i \in 1..Len(population)}, n) :
        /\ Len(q) = n
        /\ \A a, b \in 1..n : a # b => q[a] # q[b]}

\* the draws of Student.__init__ that take the simple branch: randint(1, 3)
\* symptoms of the simple list; a student without a letter has no valid id
SimpleBranchDraws ==
    UNION {{[has_excuse_letter |-> letter, has_valid_id |-> vid, symptoms |-> sym] :
               vid \in IF letter THEN BOOLEAN ELSE {FALSE},
               sym \in UNION {Sample(simple_symptoms, n) : n \in 1..3}} :
           letter \in BOOLEAN}

\* a student of the simple branch was generated; its case is not yet analyzed
InitGenerated ==
    /\ SimIdle
    /\ \E draw \in SimpleBranchDraws, wall \in WallClocks :
          case_data = GenerateCase(1, draw, wall)
    /\ blackboard = NewBlackboard
    /\ evaluated = <<>>
    /\ result = NoResult
    /\ earlier = NoResult

SpecGenerated == InitGenerated /\ [][NextExpert]_vars

(***************************************************************************)
(* One ControlShell that is handed two cases, one after the other.         *)
(***************************************************************************)
\* the cases a caller hands to process_case: mappings that give or leave out
\* the letter, the id, the symptoms and the timestamp
ShellCases ==
    {MakeCase([student_id |-> Str("S0001"), has_excuse_letter |-> letter,
               valid_id |-> vid, symptoms |-> sym, illness_type |-> Absent,
               timestamp |-> ts]) :
        letter \in {Absent, Bool(TRUE), Bool(FALSE)},
        vid \in {Absent, Bool(TRUE), Bool(FALSE)},
        sym \in {Absent, List(<<"Cough">>), List(<<"Recurring Fever">>)},
        ts \in {Absent, DateTime(2026, 11, 1, 8, 30)}}

\* control = ControlShell(): a new blackboard, no case handed in yet
InitShell == SimIdle /\ ExpertIdle

\* result = control.process_case(case_data), on the blackboard the shell has
\* kept since it was built; `earlier` is what the call before returned
ProcessOnShell ==
    /\ run = "idle"
    /\ earlier = NoResult
    /\ earlier' = result
    /\ \E cd \in ShellCases, wall \in WallClocks :
          LET out == ProcessCase(blackboard, cd, wall)
          IN  /\ case_data' = cd
              /\ result' = out.ret
              /\ blackboard' = out.bb
              /\ evaluated' = out.evaluated
    /\ UNCHANGED simVars
    /\ UNCHANGED gui

NextShell == ProcessOnShell

SpecShell == InitShell /\ [][NextShell]_vars

(***************************************************************************)
(* The window on its own: the user edits the fields and presses Start      *)
(* Simulation; a simulation thread runs run_simulation and ends.           *)
(***************************************************************************)
InitGui == SimIdle /\ ExpertIdle

\* the user replaces the text of one field
EditEntry ==
    /\ \E f \in FieldNames :
          \E text \in TypedTexts \cup {DefaultEntries[f]} :
          /\ text # gui.entries[f]
          /\ gui' = [gui EXCEPT !.entries[f] = text]
    /\ UNCHANGED <<simVars, expertVars>>

\* MedicalCertificateSystem.run_simulation, the handler of Start Simulation:
\* it runs in the main thread of the window from its first line to its last
StartSimulation ==
    /\ Len(gui.sim_threads) < MaxThreads
    /\ gui' = IF gui.is_simulating
              THEN [gui EXCEPT !.message = "Simulation is already running"]
              ELSE IF EntriesRaise(gui.entries)
              THEN [gui EXCEPT !.is_simulating = TRUE,
                               !.message = "Please enter valid numbers for resources and duration."]
              ELSE [gui EXCEPT !.is_simulating = TRUE,
                               !.message = "Starting Simulation",
                               !.sim_threads = Append(@, "simulating")]
    /\ UNCHANGED <<simVars, expertVars>>

\* _run_simulation_thread: run_simulation returned or raised, and the
\* `finally` block sets is_simulating (line 546)
ThreadFinally ==
    /\ \E i \in 1..Len(gui.sim_threads) :
          /\ gui.sim_threads[i] = "simulating"
          /\ gui' = [gui EXCEPT !.is_simulating = FALSE,
                                !.sim_threads[i] = "finishing"]
    /\ UNCHANGED <<simVars, expertVars>>

\* _run_simulation_thread: the status event is put (line 547) and the thread
\* ends
ThreadExits ==
    /\ \E i \in 1..Len(gui.sim_threads) :
          /\ gui.sim_threads[i] = "finishing"
          /\ gui' = [gui EXCEPT !.sim_threads =
                          SubSeq(@, 1, i - 1) \o SubSeq(@, i + 1, Len(@))]
    /\ UNCHANGED <<simVars, expertVars>>

NextGui == EditEntry \/ StartSimulation \/ ThreadFinally \/ ThreadExits

SpecGui == InitGui /\ [][NextGui]_vars

InitAll == Init \/ InitExpert

NextAll == Next \/ NextExpert

SpecAll == InitAll /\ [][NextAll]_vars


(***************************************************************************)
(* Properties                                                              *)
(***************************************************************************)
InSeq(x, seq) == \E i \in 1..Len(seq) : seq[i] = x

IsPrefix(a, b) == Len(a) <= Len(b) /\ SubSeq(b, 1, Len(a)) = a

Ended(s) == students[s].pc \in {"done", "failed"}

\* C1: in every state of a run whose pools could be built, each pool is held
\* by at most as many cases as its configured capacity (MAX_NURSES,
\* MAX_DOCTORS, MAX_STAFF).
C1_HeldWithinCapacity ==
    ~ResourceRaises(config)
    => /\ Len(users["nurses"]) <= config.MAX_NURSES
       /\ Len(users["doctors"]) <= config.MAX_DOCTORS
       /\ Len(users["staff"]) <= config.MAX_STAFF

\* a pool is full and a case waits for it
C1_Witness ==
    /\ run = "running"
    /\ Len(users["staff"]) = config.MAX_STAFF
    /\ Len(put_queue["staff"]) > 0
    /\ Len(users["nurses"]) = config.MAX_NURSES

\* C2: each pool grants its units in the order of the requests: the granted
\* cases are a prefix of the requesting cases, and the waiting cases are the
\* rest, in the order they asked.
C2_GrantedInRequestOrder ==
    \A p \in Pools :
        /\ IsPrefix(granted[p], requested[p])
        /\ put_queue[p] = SubSeq(requested[p], Len(granted[p]) + 1, Len(requested[p]))

\* case a asked for a nurse before case b, both waited at the same time, and
\* a has been granted while b still waits
C2_Witness ==
    \E a, b \in DOMAIN students :
        /\ a < b
        /\ students[a].pc \notin {"start", "wait_nurse"}
        /\ students[a].process_times.nurse_start > students[a].process_times.wait_start
        /\ students[b].pc = "wait_nurse"
        /\ students[b].process_times.wait_start < students[a].process_times.nurse_start

\* C3 (as claimed): a case holds units of at most one pool, and holds no nurse
\* unit while it waits for or holds a doctor unit or a staff unit.
C3_OnePoolAtATime ==
    \A s \in DOMAIN students :
        LET held == {p \in Pools : InSeq(s, users[p])}
            waiting == {p \in Pools : InSeq(s, put_queue[p])}
        IN  /\ Cardinality(held) <= 1
            /\ "nurses" \in held => waiting \cap {"doctors", "staff"} = {}

\* C4: a case that has ended (by return or by an exception) holds no unit and
\* waits for none, so every pool is held by live cases only, one unit each.
C4_ReleasedOnEveryExit ==
    \A p \in Pools :
        /\ \A s \in DOMAIN students :
              Ended(s) => ~InSeq(s, users[p]) /\ ~InSeq(s, put_queue[p])
        /\ Len(users[p]) =
              Cardinality({s \in DOMAIN students : ~Ended(s) /\ InSeq(s, users[p])})

\* one case was rejected, one got its certificate, one ended by an exception
C4_Witness ==
    \E a, b, c \in DOMAIN students :
        /\ students[a].pc = "done" /\ students[a].status = "rejected_by_nurse"
        /\ students[b].pc = "done" /\ students[b].status = "certificate_issued"
        /\ students[c].pc = "failed"
        /\ InSeq(c, granted["staff"])

\* C5: without an excuse letter analyze_case rejects with the nurse's reason
\* and evaluates no other expert; in a run such a student ends as
\* rejected_by_nurse and never asks for the doctor pool or the staff pool.
C5_NoLetterRejectedByNurse ==
    /\ (/\ run = "idle"
        /\ result # NoResult
        /\ "has_excuse_letter" \in DOMAIN case_data
        /\ case_data["has_excuse_letter"] = Bool(FALSE))
       => /\ result.decision = "reject"
          /\ result.reason = "No valid excuse letter or ID"
          /\ evaluated = <<"nurse">>
          /\ blackboard.intermediate_decisions.doctor_review = None
    /\ \A s \in DOMAIN students :
          ~students[s].has_excuse_letter
          => /\ ~InSeq(s, requested["doctors"])
             /\ ~InSeq(s, requested["staff"])
             /\ Ended(s) => students[s].status = "rejected_by_nurse"

\* analyze_case has returned for a case without a letter whose other facts
\* are in order
C5_Witness ==
    /\ run = "idle"
    /\ result # NoResult
    /\ Get(case_data, "has_excuse_letter") = Bool(FALSE)
    /\ Get(case_data, "valid_id") = Bool(TRUE)
    /\ Truthy(Get(case_data, "student_id"))
    /\ Get(case_data, "timestamp").t = "datetime"
    /\ Get(case_data, "symptoms") = List(<<"Cough">>)

\* the facts are fully documented but for valid_id
DocumentedBut(cd) ==
    /\ Get(cd, "has_excuse_letter") = Bool(TRUE)
    /\ Truthy(Get(cd, "student_id"))
    /\ Get(cd, "timestamp").t = "datetime"
    /\ Get(cd, "symptoms").t = "list"

Documented(cd) == DocumentedBut(cd) /\ Get(cd, "valid_id") = Bool(TRUE)

\* some symptom is, but for capitals, an entry of the nurse's vocabulary
HasSimpleSymptom(cd) ==
    \E i \in 1..Len(cd["symptoms"].v) : Lower(cd["symptoms"].v[i]) \in simple_cases

\* the number of symptoms that contain, but for capitals, a complex condition
SevereCount(cd) ==
    Cardinality({i \in 1..Len(cd["symptoms"].v) :
                    \E c \in complex_conditions : Contains(Lower(cd["symptoms"].v[i]), c)})

\* C6 (as claimed): facts without a valid_id key are evaluated as the same
\* facts with valid_id = true; with a letter, a student id, a timestamp and a
\* simple symptom the result is approve.
C6_ValidIdDefaultsToTrue ==
    (/\ result # NoResult
     /\ "valid_id" \notin DOMAIN case_data
     /\ DocumentedBut(case_data)
     /\ HasSimpleSymptom(case_data))
    => /\ result.decision = "approve"
       /\ \A wall \in WallClocks :
             result = AnalyzeCase(Update(case_data, [valid_id |-> Bool(TRUE)]), wall).ret

\* C7: fully documented facts with a symptom of the nurse's vocabulary (capitals
\* aside) are approved by the nurse as simple, skip the doctor, are recorded
\* by the staff, and end as approve with a record_id and approved_by = nurse.
C7_SimpleCaseApprovedByNurse ==
    (result # NoResult /\ Documented(case_data) /\ HasSimpleSymptom(case_data))
    => /\ blackboard.intermediate_decisions.nurse_assessment.decision = "approve"
       /\ blackboard.intermediate_decisions.nurse_assessment.complexity = "simple"
       /\ blackboard.intermediate_decisions.doctor_review = None
       /\ evaluated = <<"nurse", "staff">>
       /\ result.decision = "approve"
       /\ "record_id" \in DOMAIN result
       /\ result.record_id =
             "MC-" \o case_data["student_id"].v \o "-" \o Strftime(case_data["timestamp"].v)
       /\ result.approved_by = "nurse"

\* such a case came back, with capitals in its simple symptom and a complex
\* condition among its other symptoms
C7_Witness ==
    /\ result # NoResult
    /\ Documented(case_data)
    /\ InSeq("Cough", case_data["symptoms"].v)
    /\ SevereCount(case_data) > 0

\* C8: fully documented facts with n >= 1 symptoms, none of the nurse's
\* vocabulary and k of them containing a complex condition, are referred by the
\* nurse; the result is approve by the doctor exactly when 10 * k >= 7 * n, and
\* else the doctor's reject, with the staff not evaluated.
C8_ReferredCaseDecidedBySeverity ==
    (/\ result # NoResult
     /\ Documented(case_data)
     /\ Len(case_data["symptoms"].v) >= 1
     /\ ~HasSimpleSymptom(case_data))
    => LET n == Len(case_data["symptoms"].v)
           k == SevereCount(case_data)
       IN  /\ blackboard.intermediate_decisions.nurse_assessment.decision = "refer"
           /\ IF 10 * k >= 7 * n
              THEN /\ result.decision = "approve"
                   /\ result.approved_by = "doctor"
                   /\ evaluated = <<"nurse", "doctor", "staff">>
              ELSE /\ result.decision = "reject"
                   /\ result.reason = "Condition does not warrant certificate"
                   /\ evaluated = <<"nurse", "doctor">>

\* a referred case with three symptoms of which all are complex conditions
\* came back
C8_Witness ==
    /\ result # NoResult
    /\ Documented(case_data)
    /\ ~HasSimpleSymptom(case_data)
    /\ Len(case_data["symptoms"].v) = 3
    /\ SevereCount(case_data) = 3

\* two of three symptoms are complex conditions: below the threshold
C8_WitnessBelow ==
    /\ result # NoResult
    /\ Documented(case_data)
    /\ ~HasSimpleSymptom(case_data)
    /\ Len(case_data["symptoms"].v) = 3
    /\ SevereCount(case_data) = 2
    /\ result.decision = "reject"

\* what the nurse expert says of a student's case
NurseAssessment(s) == NurseEvaluate(LoadFacts(NewBlackboard, students[s].case_details))

\* C9 (as claimed): a case the nurse refers, or assesses as complex, is given
\* a doctor unit before it asks for the staff pool, gets no certificate without
\* that, and ends as rejected_by_doctor when the doctor rejects.
C9_ReferredCaseSeesDoctor ==
    \A s \in DOMAIN students :
        (NurseAssessment(s).decision = "refer" \/ NurseAssessment(s).complexity = "complex")
        => /\ InSeq(s, requested["staff"]) => InSeq(s, granted["doctors"])
           /\ students[s].status = "certificate_issued" => InSeq(s, granted["doctors"])
           /\ (Ended(s) /\ students[s].reason = "Condition does not warrant certificate")
              => students[s].status = "rejected_by_doctor"

\* C10: students_in_system is never negative, and the record run_simulation
\* returns has patients_seen = total_patients.
C10_Conservation ==
    /\ stats.students_in_system >= 0
    /\ final_stats # NoResult => final_stats.patients_seen = final_stats.total_patients

\* the run returned with students seen, one of them done and one still in
\* the system
C10_Witness ==
    /\ run = "returned"
    /\ final_stats.total_patients >= 2
    /\ stats.students_in_system >= 1
    /\ \E s \in DOMAIN students : students[s].pc = "done"

Statuses == {"rejected_by_nurse", "rejected_by_doctor", "certificate_issued"}

\* C11: complete_student is called at most once for a student, and a student
\* has a status, one of rejected_by_nurse, rejected_by_doctor and
\* certificate_issued, exactly when it was called; certificates_issued counts
\* the students that completed with certificate_issued and never exceeds
\* total_students, in the statistics and in the returned record.
C11_CompletesAtMostOnce ==
    /\ \A s \in DOMAIN students :
          /\ students[s].completions <= 1
          /\ students[s].completions = 1 <=> students[s].status \in Statuses
          /\ students[s].completions = 0 <=> students[s].status = ""
    /\ stats.certificates_issued =
          Cardinality({s \in DOMAIN students : students[s].status = "certificate_issued"})
    /\ stats.certificates_issued <= stats.total_students
    /\ final_stats # NoResult => final_stats.certificates_issued <= final_stats.patients_seen

\* a rejected student and a student with a certificate have both completed,
\* and the run has returned
C11_Witness ==
    /\ run = "returned"
    /\ \E a, b \in DOMAIN students :
          /\ students[a].completions = 1 /\ students[a].status = "rejected_by_nurse"
          /\ students[b].completions = 1 /\ students[b].status = "certificate_issued"
    /\ final_stats.certificates_issued >= 1

\* the students for which complete_student was called
Completed == {s \in DOMAIN students : students[s].completions = 1}

\* the wait times of the completed students among the first n, added up
RECURSIVE CompletedWait(_)
CompletedWait(n) ==
    IF n = 0 THEN 0
    ELSE CompletedWait(n - 1) +
         IF n \in Completed
         THEN students[n].process_times.completion - students[n].process_times.wait_start
         ELSE 0

\* C12 (as claimed): the record of a run that returned counts completed
\* students only: a student still in the clinic when the run length is reached
\* is in none of nurse_decisions, doctor_decisions, simple_cases,
\* complex_cases, certificates_issued and total_wait_time.
C12_AbandonedCaseUncounted ==
    run = "returned" =>
        LET passed == {s \in Completed : students[s].status # "rejected_by_nurse"}
        IN  /\ final_stats.nurse_decisions.refer + final_stats.nurse_decisions.treat
                  = Cardinality(Completed)
            /\ final_stats.simple_cases + final_stats.complex_cases = Cardinality(passed)
            /\ final_stats.doctor_decisions.issue + final_stats.doctor_decisions.deny
                  <= Cardinality(passed)
            /\ final_stats.certificates_issued =
                  Cardinality({s \in Completed : students[s].status = "certificate_issued"})
            /\ final_stats.average_wait_time.num = CompletedWait(Len(students))

\* a pool capacity or the duration of the configuration is not positive
InvalidConfig ==
    \/ config.MAX_NURSES <= 0
    \/ config.MAX_DOCTORS <= 0
    \/ config.MAX_STAFF <= 0
    \/ config.duration_hours <= 0

\* C13 (as claimed): whatever the callback does, no case process ends by an
\* exception, a run with a valid configuration does not end in the except
\* branch, and the record returned is the one built from the statistics.
C13_CallbackFaultContained ==
    /\ \A s \in DOMAIN students : students[s].pc # "failed"
    /\ ~InvalidConfig => run # "error"
    /\ (final_stats # NoResult /\ ~InvalidConfig) => final_stats = FinalStats

\* the statistics fields of a returned record are all zero
Zeroed(rec) ==
    /\ rec.total_patients = 0
    /\ rec.patients_seen = 0
    /\ rec.certificates_issued = 0
    /\ rec.average_wait_time.num = 0
    /\ rec.certificate_issuance_rate.num = 0
    /\ rec.simple_cases = 0
    /\ rec.complex_cases = 0
    /\ rec.peak_hour_visits = 0
    /\ rec.off_peak_visits = 0
    /\ rec.nurse_decisions = [refer |-> 0, treat |-> 0]
    /\ rec.doctor_decisions = [issue |-> 0, deny |-> 0]

\* C14: called with a capacity or a duration that is not positive,
\* run_simulation returns a record with an error and zeroed statistics, and no
\* student is generated or processed.
C14_InvalidConfigZeroedRecord ==
    (run # "called" /\ InvalidConfig)
    => /\ run = "error"
       /\ "error" \in DOMAIN final_stats
       /\ Zeroed(final_stats)
       /\ students = <<>>
       /\ stats = InitialStats
       /\ \A p \in Pools : users[p] = <<>> /\ requested[p] = <<>>

\* run_simulation has returned for a run length of 0 hours
C14_Witness ==
    /\ run = "error"
    /\ config.duration_hours <= 0
    /\ config.MAX_NURSES > 0 /\ config.MAX_DOCTORS > 0 /\ config.MAX_STAFF > 0
    /\ final_stats # NoResult

\* a reason that reports a fault: "System error: " and the exception's text
ReportsFault(rec) ==
    /\ "reason" \in DOMAIN rec
    /\ Len(rec.reason) > Len("System error: ")
    /\ SubSeq(rec.reason, 1, Len("System error: ")) = "System error: "

\* the facts make an expert raise: the argument is no mapping; or the nurse's
\* first rule passes and the symptoms are None or hold an int that is reached;
\* or the case comes to the staff with a truthy timestamp that is no datetime
FaultyInput(cd) ==
    \/ cd = NotAMapping
    \/ /\ cd # NotAMapping
       /\ Get(cd, "has_excuse_letter") = Bool(TRUE)
       /\ Get(cd, "valid_id") = Bool(TRUE)
       /\ \/ "symptoms" \in DOMAIN cd /\ cd["symptoms"] = None
          \/ /\ Get(cd, "symptoms").t = "listwithint"
             /\ Get(cd, "symptoms").int_at = 1
          \/ /\ Get(cd, "symptoms").t = "list"
             /\ HasSimpleSymptom(cd)
             /\ Truthy(Get(cd, "student_id"))
             /\ Get(cd, "timestamp").t = "str"

\* C15: analyze_case always returns a decision record, approve or reject; for
\* input that makes an expert raise (no mapping, symptoms None or with an int,
\* a string as timestamp) it returns reject with a reason that reports the
\* fault; in a run every result handed to a case process is such a record.
C15_FaultYieldsReject ==
    /\ result # NoResult
       => /\ "decision" \in DOMAIN result
          /\ result.decision \in {"approve", "reject"}
          /\ FaultyInput(case_data) => result.decision = "reject" /\ ReportsFault(result)
    /\ \A s \in DOMAIN students :
          students[s].nurse_result # NoResult
          => /\ "decision" \in DOMAIN students[s].nurse_result
             /\ students[s].nurse_result.decision \in {"approve", "reject"}

\* analyze_case has returned for facts whose first symptom is an int
C15_Witness ==
    /\ result # NoResult
    /\ case_data # NotAMapping
    /\ Get(case_data, "has_excuse_letter") = Bool(TRUE)
    /\ Get(case_data, "valid_id") = Bool(TRUE)
    /\ Get(case_data, "symptoms").t = "listwithint"
    /\ Get(case_data, "symptoms").int_at = 1
    /\ ReportsFault(result)

\* C16 (as claimed): facts without a student_id (absent, None or empty) are
\* rejected by the nurse with 'No valid excuse letter or ID', whatever the
\* letter and the ID, and no other expert is evaluated.
C16_NoStudentIdRejectedByNurse ==
    (/\ result # NoResult
     /\ case_data # NotAMapping
     /\ Get(case_data, "symptoms").t \in {"none", "list"}
     /\ "symptoms" \in DOMAIN case_data => case_data["symptoms"] # None
     /\ ~NurseCanHandle(blackboard.facts)
     /\ Get(case_data, "student_id") \in {None, Str("")})
    => /\ result.decision = "reject"
       /\ result.reason = "No valid excuse letter or ID"
       /\ evaluated = <<"nurse">>

\* C17 (as claimed): the doctor evaluates a case only if its illness_type is
\* complex and it has an excuse letter.
C17_DoctorOnlyForComplexIllnessType ==
    (result # NoResult /\ InSeq("doctor", evaluated))
    => /\ DoctorCanHandle(blackboard.facts)
       /\ Get(case_data, "illness_type") = Str("complex")
       /\ Get(case_data, "has_excuse_letter") = Bool(TRUE)

\* C18: with a letter, a valid ID and no symptoms (an empty list, or none
\* given) the nurse refers the case as complex, the doctor rejects it with
\* 'Insufficient documentation for complex case', that reject is returned and
\* the staff is not evaluated.
C18_NoSymptomsRejectedByDoctor ==
    (/\ result # NoResult
     /\ case_data # NotAMapping
     /\ Get(case_data, "has_excuse_letter") = Bool(TRUE)
     /\ Get(case_data, "valid_id") = Bool(TRUE)
     /\ "symptoms" \in DOMAIN case_data => case_data["symptoms"] = List(<<>>))
    => /\ blackboard.intermediate_decisions.nurse_assessment.decision = "refer"
       /\ blackboard.intermediate_decisions.nurse_assessment.complexity = "complex"
       /\ blackboard.intermediate_decisions.doctor_review = result
       /\ blackboard.intermediate_decisions.final_decision = result
       /\ result = [decision |-> "reject",
                    reason |-> "Insufficient documentation for complex case"]
       /\ evaluated = <<"nurse", "doctor">>

\* analyze_case has returned for otherwise complete facts with symptoms = []
C18_Witness ==
    /\ result # NoResult
    /\ case_data # NotAMapping
    /\ Get(case_data, "has_excuse_letter") = Bool(TRUE)
    /\ Get(case_data, "valid_id") = Bool(TRUE)
    /\ "symptoms" \in DOMAIN case_data
    /\ case_data["symptoms"] = List(<<>>)
    /\ Truthy(Get(case_data, "student_id"))
    /\ Get(case_data, "timestamp").t = "datetime"

\* the nurse did not reject and the doctor, if asked, did not reject
PassedToStaff ==
    LET d == blackboard.intermediate_decisions
    IN  /\ d.nurse_assessment # None
        /\ d.nurse_assessment.decision # "reject"
        /\ d.doctor_review # None => d.doctor_review.decision # "reject"

\* one of the five fields the record needs is missing or falsy
FieldMissing ==
    \E field \in {"student_id", "symptoms", "timestamp", "has_excuse_letter", "valid_id"} :
        ~Truthy(Get(blackboard.facts, field))

\* C19: a case that neither the nurse nor the doctor rejected is evaluated by
\* the staff; if one of student_id, symptoms, timestamp, has_excuse_letter,
\* valid_id is missing or falsy the result is reject with 'Missing required
\* information for record', else the staff records it and the result carries
\* the record_id.  (The timestamp, when given, is a datetime.)
C19_StaffRequiresFields ==
    (/\ result # NoResult
     /\ PassedToStaff
     /\ blackboard.facts["timestamp"].t \in {"none", "datetime"})
    => /\ InSeq("staff", evaluated)
       /\ IF FieldMissing
          THEN /\ result = [decision |-> "reject",
                            reason |-> "Missing required information for record"]
               /\ blackboard.intermediate_decisions.final_decision = result
          ELSE /\ result.decision = "approve"
               /\ result.record_id =
                     "MC-" \o blackboard.facts["student_id"].v \o "-"
                           \o Strftime(blackboard.facts["timestamp"].v)

\* the staff was asked about a case whose student_id is the empty string
C19_Witness ==
    /\ result # NoResult
    /\ PassedToStaff
    /\ InSeq("staff", evaluated)
    /\ blackboard.facts["student_id"] = Str("")
    /\ blackboard.facts["timestamp"].t = "datetime"

\* C20: analyze_case returns approve or reject only.  Approve means the nurse
\* and the doctor (if asked) did not reject and the staff recorded the case,
\* with approved_by = doctor for nurse complexity complex and nurse otherwise.
\* A reject is that of the first expert that rejected (or a reported fault),
\* and no expert after it is evaluated; cases that pass to the staff with all
\* fields in order are approved.
C20_OverallDecision ==
    result # NoResult =>
        LET d == blackboard.intermediate_decisions
            nurse == d.nurse_assessment
            doctor == d.doctor_review
        IN  /\ result.decision \in {"approve", "reject"}
            /\ result.decision = "approve"
                  => /\ PassedToStaff
                     /\ evaluated[Len(evaluated)] = "staff"
                     /\ "record_id" \in DOMAIN result
                     /\ result.approved_by =
                           IF nurse.complexity = "complex" THEN "doctor" ELSE "nurse"
                     /\ d.final_decision = result
            /\ (PassedToStaff /\ ~FieldMissing /\ blackboard.facts["timestamp"].t = "datetime")
                  => result.decision = "approve"
            /\ (nurse # None /\ nurse.decision = "reject")
                  => result = nurse /\ evaluated = <<"nurse">> /\ doctor = None
            /\ (doctor # None /\ doctor.decision = "reject")
                  => result = doctor /\ evaluated = <<"nurse", "doctor">>
            /\ nurse # None
                  => (InSeq("doctor", evaluated)
                        <=> (nurse.decision = "refer" \/ nurse.complexity = "complex"))
            /\ nurse = None => result.decision = "reject" /\ ReportsFault(result)

\* a case the nurse referred was approved by the doctor and recorded
C20_Witness ==
    /\ result # NoResult
    /\ result.decision = "approve"
    /\ result.approved_by = "doctor"
    /\ evaluated = <<"nurse", "doctor", "staff">>

\* the decision records kept in the entries of the case history
HistoryDecisions ==
    {blackboard.case_history[i].decisions[k] :
        i \in 1..Len(blackboard.case_history),
        k \in {"nurse_assessment", "doctor_review", "final_decision"}}

\* C21 (as claimed): after process_case returned, the case history holds the
\* decision record of every expert that was evaluated for the case, also when
\* the nurse or the doctor rejected it.
C21_HistoryHoldsEveryStage ==
    (result # NoResult /\ blackboard.intermediate_decisions.nurse_assessment # None)
    => LET d == blackboard.intermediate_decisions
       IN  /\ Len(blackboard.case_history) >= 1
           /\ d.nurse_assessment \in HistoryDecisions
           /\ d.doctor_review # None => d.doctor_review \in HistoryDecisions

\* C22: two calls of analyze_case with the same facts mapping return the same
\* record: the second call's result equals the first call's, whatever the
\* wall-clock time of either call, and both leave the same evaluated stages.
C22_SameFactsSameRecord ==
    earlier # NoResult
    => /\ result = earlier
       /\ \A wall \in WallClocks :
             /\ AnalyzeCase(case_data, wall).ret = earlier
             /\ AnalyzeCase(case_data, wall).evaluated = evaluated

\* analyze_case was called twice and recorded the case both times
C22_Witness ==
    /\ earlier # NoResult
    /\ result.decision = "approve"
    /\ "record_id" \in DOMAIN result
    /\ evaluated = <<"nurse", "doctor", "staff">>

\* C23: two runs of run_simulation with the same random seed and the same
\* configuration return identical final statistics: the record the second run
\* returns equals the record of the first.
C23_SameSeedSameStatistics ==
    (replay.pass = 2 /\ final_stats # NoResult) => final_stats = replay.first

\* a second run returned, after students waited and got certificates
C23_Witness ==
    /\ replay.pass = 2
    /\ run = "returned"
    /\ final_stats.certificates_issued >= 1
    /\ final_stats.average_wait_time.num > 0

\* the hour of the day of virtual time t (in ticks), (t / 60) mod 24 with t in
\* minutes, lies in a peak interval: 10:00-11:30 or 13:30-17:00
PeakAt(t) ==
    \E h \in peak_hours :
        h.start * Minutes(30) <= t % Minutes(24 * 60) /\ t % Minutes(24 * 60) <= h.end * Minutes(30)

\* C24 (as claimed): a student arriving at virtual minute t is counted in
\* peak_hour_visits exactly when (t / 60) mod 24 lies in a peak interval, and
\* in off_peak_visits otherwise; an arrival at minute 630 is a peak visit.
C24_PeakVisitByHourOfDay ==
    (run = "clock" /\ students # <<>>)
    => /\ stats.peak_hour_visits = (IF PeakAt(now) THEN 1 ELSE 0)
       /\ stats.off_peak_visits = (IF PeakAt(now) THEN 0 ELSE 1)

\* C25 (as claimed): the delay to the next arrival, drawn at virtual minute t,
\* lies in [5, 10] minutes when (t / 60) mod 24 is in a peak interval and in
\* [15, 25] minutes otherwise.
C25_DelayByHourOfDay ==
    \A i \in 1..Len(queue) :
        (run = "clock" /\ queue[i].kind = "timeout")
        => LET delay == queue[i].t - now
           IN  IF PeakAt(now)
               THEN Minutes(5) <= delay /\ delay <= Minutes(10)
               ELSE Minutes(15) <= delay /\ delay <= Minutes(25)

\* the nurse refers the case of student s or finds it complex
Complex(s) ==
    NurseAssessment(s).decision = "refer" \/ NurseAssessment(s).complexity = "complex"

\* C26 (as claimed): with one doctor and two complex cases that arrived at the
\* same virtual time, both cases go through the doctor stage, one after the
\* other: the second is given the doctor unit, and starts with the doctor, no
\* earlier than the first has held it for the doctor's process time.
C26_TwoComplexCasesShareDoctor ==
    \A a \in DOMAIN students, b \in DOMAIN students :
        ( /\ a # b
          /\ run = "returned"
          /\ config.MAX_DOCTORS = 1
          /\ students[a].arrival_time = students[b].arrival_time
          /\ Complex(a) /\ Complex(b)
          /\ ~InSeq(b, granted["doctors"]) \/ InSeq(a, SubSeq(granted["doctors"], 1, 1)) )
        => /\ InSeq(a, granted["doctors"]) /\ InSeq(b, granted["doctors"])
           /\ students[b].process_times.doctor_start
                >= students[a].process_times.doctor_start
                   + Minutes(config.DOCTOR_PROCESS_TIME)

\* the wait_time complete_student computed for student s
WaitTime(s) == students[s].process_times.completion - students[s].process_times.wait_start

RECURSIVE SumOfWaits(_)
SumOfWaits(n) ==
    IF n = 0 THEN 0
    ELSE SumOfWaits(n - 1) + (IF students[n].completions >= 1 THEN WaitTime(n) ELSE 0)

\* the timestamps of every student are in order, and no wait is negative
TimesInOrder ==
    /\ \A s \in DOMAIN students :
          LET pt == students[s].process_times
              inNurse == students[s].pc \notin {"start", "wait_nurse"}
              inDoctor == students[s].pc \in {"doctor_delay", "doctor_process"}
                          \/ pt.doctor_start # 0
          IN  /\ students[s].arrival_time <= now
              /\ students[s].pc # "start" => pt.wait_start = students[s].arrival_time
              /\ inNurse => students[s].arrival_time <= pt.nurse_start /\ pt.nurse_start <= now
              /\ inDoctor => pt.nurse_start <= pt.doctor_start /\ pt.doctor_start <= now
              /\ students[s].completions >= 1
                 => /\ pt.nurse_start <= pt.completion
                    /\ inDoctor => pt.doctor_start <= pt.completion
                    /\ pt.completion <= now
                    /\ WaitTime(s) >= 0
    /\ stats.total_wait_time = SumOfWaits(Len(students))
    /\ stats.total_wait_time >= 0

\* C27: virtual time never decreases; for every student arrival_time <=
\* nurse_start <= doctor_start (when the doctor stage was entered) <=
\* completion, and every wait_time complete_student adds up is >= 0.
C27_TimeNeverGoesBack ==
    [][now' >= now]_vars /\ []TimesInOrder

\* a student waited for the nurse and completed later still
C27_Witness ==
    \E s \in DOMAIN students :
        /\ students[s].pc = "done"
        /\ students[s].arrival_time < students[s].process_times.nurse_start
        /\ students[s].process_times.nurse_start < students[s].process_times.completion
        /\ stats.total_wait_time > WaitTime(s)

WithIllnessType(cd, ill) ==
    [k \in (DOMAIN cd \ {"illness_type"})
            \cup (IF ill = Absent THEN {} ELSE {"illness_type"}) |->
        IF k = "illness_type" THEN ill ELSE cd[k]]

\* C29: illness_type is informational only: a mapping that differs from the
\* analysed one only in illness_type (simple, complex or unset) gets the same
\* decision, reason and approved_by, and the same sequence of evaluated stages.
C29_IllnessTypeInformationalOnly ==
    (result # NoResult /\ case_data # NotAMapping)
    => \A ill \in FactChoices.illness_type, wall \in WallClocks :
          LET other == AnalyzeCase(WithIllnessType(case_data, ill), wall)
          IN  /\ DGet(other.ret, "decision") = DGet(result, "decision")
              /\ DGet(other.ret, "reason") = DGet(result, "reason")
              /\ DGet(other.ret, "approved_by") = DGet(result, "approved_by")
              /\ other.evaluated = evaluated

\* a case declared complex was approved by the nurse as a simple one
C29_Witness ==
    /\ result # NoResult
    /\ case_data # NotAMapping
    /\ "illness_type" \in DOMAIN case_data
    /\ case_data["illness_type"] = Str("complex")
    /\ DGet(result, "approved_by") = "nurse"
    /\ evaluated = <<"nurse", "staff">>

\* pool p has a free unit and a request waiting for it
FreeAndWaiting(p) ==
    /\ Len(users[p]) < (CASE p = "nurses" -> config.MAX_NURSES
                          [] p = "doctors" -> config.MAX_DOCTORS
                          [] p = "staff" -> config.MAX_STAFF)
    /\ put_queue[p] # <<>>

\* a pool with a free unit and a waiting request has the release of that unit
\* pending at the current virtual time
GrantPendingNow ==
    \A p \in Pools :
        FreeAndWaiting(p)
        => \E i \in 1..Len(queue) :
              queue[i].kind = "release" /\ queue[i].pool = p /\ queue[i].t = now

\* C30: a unit released while requests wait is granted to the head waiter at
\* the virtual timestamp of the release: virtual time never advances while a
\* pool has both a free unit and a waiting request.
C30_GrantedAtTimeOfRelease ==
    /\ []GrantPendingNow
    /\ [][now' > now => \A p \in Pools : ~FreeAndWaiting(p)]_vars

\* case b waited for a nurse and started with the nurse at the very time case
\* a completed and gave its nurse back
C30_Witness ==
    \E a \in DOMAIN students, b \in DOMAIN students :
        /\ a # b
        /\ students[a].pc = "done"
        /\ students[b].arrival_time < students[b].process_times.nurse_start
        /\ students[b].process_times.nurse_start = students[a].process_times.completion
        /\ InSeq(b, granted["nurses"])

\* the students complete_student is called for in the step
CompletingNow ==
    {s \in DOMAIN students : students'[s].completions # students[s].completions}

\* C31: total_wait_time changes only when a case completes, and a completion
\* adds exactly (completion time - arrival time) of that case, once; arrivals,
\* grants and stage transitions leave it unchanged.
C31_WaitAddedAtCompletionOnly ==
    [][ /\ Cardinality(CompletingNow) <= 1
        /\ CompletingNow = {}
           => stats'.total_wait_time = stats.total_wait_time
        /\ \A s \in CompletingNow :
              /\ students'[s].completions = students[s].completions + 1
              /\ students'[s].process_times.completion = now'
              /\ stats'.total_wait_time
                    = stats.total_wait_time + (now' - students[s].arrival_time) ]_vars

\* two cases completed, one of them after waiting for a nurse, while a third
\* case is still in the clinic
C31_Witness ==
    /\ Len(students) = 3
    /\ students[1].pc = "done" /\ students[2].pc = "done"
    /\ students[2].arrival_time < students[2].process_times.nurse_start
    /\ students[3].pc \notin {"start", "done", "failed"}
    /\ stats.total_wait_time = WaitTime(1) + WaitTime(2)

\* the cases that passed the nurse stage: they went on to ask for a doctor or
\* for the staff
PassedNurse ==
    {s \in DOMAIN students :
        InSeq(s, requested["doctors"]) \/ InSeq(s, requested["staff"])}

\* C32 (as claimed): the complexity tallies reflect the nurse's assessment:
\* complex_cases counts the cases past the nurse stage whose symptoms the nurse
\* classifies as complex, simple_cases the other cases past the nurse stage.
C32_TalliesFollowNurseAssessment ==
    /\ stats.complex_cases = Cardinality({s \in PassedNurse : Complex(s)})
    /\ stats.simple_cases = Cardinality({s \in PassedNurse : ~Complex(s)})

\* the places of the callback's log that hold an event of type ty about case s
EventsOf(ty, s) ==
    {i \in 1..Len(notified) : notified[i].type = ty /\ notified[i].id = s}

\* how many of the first n calls were events of type ty
CountOf(ty, n) == Cardinality({i \in 1..n : notified[i].type = ty})

\* C33: for every case the callback receives the arrival event before the
\* completion event and at most one completion event; every completion event
\* is immediately followed by a statistics snapshot whose Patients in System
\* and Certificates Issued already include that completion.
C33_CallbackOrder ==
    /\ \A s \in DOMAIN students :
          /\ Cardinality(EventsOf("completion", s)) <= 1
          /\ \A i \in EventsOf("completion", s) :
                \E j \in EventsOf("student", s) : j < i
    /\ \A i \in 1..Len(notified) :
          notified[i].type = "completion"
          => /\ i + 1 <= Len(notified)
             /\ notified[i + 1].type = "stats"
             /\ notified[i + 1].in_system
                  = CountOf("student", i) - CountOf("completion", i)
             /\ notified[i + 1].certificates
                  = Cardinality({k \in 1..i : /\ notified[k].type = "completion"
                                              /\ notified[k].status = "certificate_issued"})

\* the callback has received the completion of a case with a certificate, its
\* snapshot, and the completion of a rejected case, while another case is
\* still in the clinic
C33_Witness ==
    /\ \E i \in 1..Len(notified) :
          /\ notified[i].type = "completion"
          /\ notified[i].status = "certificate_issued"
          /\ notified[i + 1].in_system >= 1
    /\ \E i \in 1..Len(notified) :
          notified[i].type = "completion" /\ notified[i].status = "rejected_by_nurse"

\* the facts the blackboard, and its history entry, hold after the call are
\* the facts the nurse stage started from
FactsAsLoaded ==
    (result # NoResult /\ case_data # NotAMapping)
    => /\ blackboard.facts = LoadFacts(NewBlackboard, case_data)
       /\ \A i \in 1..Len(blackboard.case_history) :
             blackboard.case_history[i].facts = LoadFacts(NewBlackboard, case_data)

\* C34: the stages only read the facts: the caller's case_data mapping is left
\* as it was, and the facts the blackboard (and its history entry) holds when
\* the decision is returned are the ones the nurse stage started from, the
\* case_data over the blackboard's defaults.
C34_StagesOnlyReadFacts ==
    [][case_data' = case_data]_vars /\ []FactsAsLoaded

\* a case went through the nurse, the doctor and the staff and was recorded
C34_Witness ==
    /\ result # NoResult
    /\ case_data # NotAMapping
    /\ evaluated = <<"nurse", "doctor", "staff">>
    /\ Len(blackboard.case_history) = 1
    /\ blackboard.case_history[1].facts = blackboard.facts

\* the cases holding or waiting for a unit of pool p
AtPool(p) ==
    {s \in DOMAIN students : InSeq(s, users[p]) \/ InSeq(s, put_queue[p])}

\* C35: the cases holding or waiting for a doctor unit and those holding or
\* waiting for a staff unit are together at most MAX_NURSES, every one of them
\* still holding its nurse unit; no case holds a doctor unit and a staff unit
\* at the same time.
C35_LaterPoolsWithinNurses ==
    ~ResourceRaises(config)
    => /\ Cardinality(AtPool("doctors")) + Cardinality(AtPool("staff"))
            <= config.MAX_NURSES
       /\ \A s \in AtPool("doctors") \cup AtPool("staff") : InSeq(s, users["nurses"])
       /\ \A s \in DOMAIN students :
             ~(InSeq(s, users["doctors"]) /\ InSeq(s, users["staff"]))

\* as many cases as there are nurses hold or wait for the staff unit
C35_Witness ==
    /\ run = "running"
    /\ Len(users["staff"]) = 1
    /\ Len(put_queue["staff"]) = 2
    /\ Cardinality(AtPool("staff")) = config.MAX_NURSES

\* the run is over: env.run returned at the run length, or raised
RunOver == run \in {"returned", "error"}

\* no case is left waiting once the queue has run dry: a run that returned
\* with no event pending has every arrived case at its terminal outcome
NoneLeftWaiting ==
    (run = "returned" /\ queue = <<>>)
    => \A s \in DOMAIN students :
          /\ students[s].pc = "done"
          /\ students[s].status \in Statuses

\* case s has arrived and reached its terminal outcome
ReachedOutcome(s) ==
    IF Len(students) >= s
    THEN students[s].pc = "done" /\ students[s].status \in Statuses
    ELSE FALSE

\* C36: while virtual time has not reached the run length, every case that
\* arrives eventually reaches a terminal outcome (or the run is over first),
\* and no case is left waiting on a pool with nothing pending to wake it.
C36_EveryCaseReachesOutcome ==
    /\ []NoneLeftWaiting
    /\ \A s \in 1..MaxStudents :
          (Len(students) >= s) ~> (RunOver \/ ReachedOutcome(s))

\* every case of the run waited for the staff or the nurse at some time and
\* all of them reached an outcome before the run length
C36_Witness ==
    /\ run = "returned"
    /\ queue = <<>>
    /\ Len(students) = MaxStudents
    /\ \A s \in DOMAIN students : students[s].pc = "done"
    /\ \E s \in DOMAIN students : students[s].status = "certificate_issued"
    /\ \E s \in DOMAIN students :
          students[s].arrival_time < students[s].process_times.nurse_start

\* every arrived case is in the system or in one terminal tally
Conserved(st) ==
    st.total_students
        = st.students_in_system + st.nurse_decisions.refer
          + st.doctor_decisions.deny + st.certificates_issued

\* the statistics at the end of the run balance
ConservedAtRunEnd == RunOver => Conserved(stats)

\* C37: at every case completion and at run end, total_students =
\* students_in_system + nurse_decisions.refer + doctor_decisions.deny +
\* certificates_issued.
C37_ArrivedCasesAccountedFor ==
    /\ [][CompletingNow # {} => Conserved(stats')]_vars
    /\ []ConservedAtRunEnd

\* the run returned with one case rejected by the nurse, one issued its
\* certificate and one still in the system
C37_Witness ==
    /\ run = "returned"
    /\ stats.total_students = 3
    /\ stats.nurse_decisions.refer = 1
    /\ stats.certificates_issued = 1
    /\ stats.students_in_system = 1

\* the case handed in is one of a student with an excuse letter and a valid id
DocumentedCase ==
    /\ ~UpdateRaises(case_data)
    /\ DGet(case_data, "has_excuse_letter") = Bool(TRUE)
    /\ DGet(case_data, "valid_id") = Bool(TRUE)

\* C38 (as claimed): every student of the generator's simple branch who has an
\* excuse letter and a valid id is classified simple and approved by the
\* pipeline, whichever symptoms were drawn: none is referred to the doctor
\* stage or rejected.
C38_SimpleBranchApproved ==
    (result # NoResult /\ DocumentedCase)
    => /\ result.decision = "approve"
       /\ blackboard.intermediate_decisions.nurse_assessment.complexity = "simple"
       /\ ~InSeq("doctor", evaluated)

\* C39 (as claimed): what process_case returns for a case, and the facts and
\* intermediate decisions it leaves on the blackboard, depend on that case's
\* case_data only: they are those of a ControlShell that has processed no
\* case before, so no fact of an earlier case stands in for a key the later
\* case leaves out and no intermediate decision of an earlier case is kept.
C39_DecisionFromCaseDataOnly ==
    result # NoResult
    => \E wall \in WallClocks :
          LET fresh == ProcessCase(NewBlackboard, case_data, wall)
          IN  /\ result = fresh.ret
              /\ blackboard.facts = fresh.bb.facts
              /\ blackboard.intermediate_decisions = fresh.bb.intermediate_decisions

\* the simulation threads that are inside run_simulation
Simulating == {i \in 1..Len(gui.sim_threads) : gui.sim_threads[i] = "simulating"}

\* C40 (as claimed): is_simulating is true only while a simulation thread is
\* running or being started, and at most one simulation thread runs at a
\* time: after a failed start (non-numeric input) is_simulating is false
\* again, so a later Start Simulation is not refused.
C40_SimulatingOnlyWhileThreadRuns ==
    /\ gui.is_simulating => Simulating # {}
    /\ Cardinality(Simulating) <= 1

=============================================================================
